---- MODULE Spec2Model ----
(***************************************************************************)
(* Settlement reconciliation engine of the ERC20 bridge: the chain watcher *)
(* (processBurnEvent / processMintEvent), the dispatcher (processBurn),    *)
(* the status reconciler (checkGelatoTaskStatus) and the recovery          *)
(* scheduler (handleFailedTransaction / recoverFailedTransaction), over    *)
(* the ledger table, the three Bull queues, the in-memory rate limiter,    *)
(* the relay and the target chain's BridgeToken contract.                  *)
(*                                                                         *)
(* Handlers interleave at their awaits.  A handler is split into steps     *)
(* where it reads the ledger, awaits, and later acts on what it read       *)
(* (processBurnEvent, processMintEvent, recoverFailedTransaction); the     *)
(* other handlers write constants to a row found by key and are one step.  *)
(* Bull's per-job delay is carried as job data and not enforced as a       *)
(* schedule: a delay is a lower bound on when a job runs, and the worker's *)
(* clock advances independently (Tick).                                    *)
(*                                                                         *)
(* The environment's choices (listener deliveries, relay rejections,       *)
(* non-terminal relay answers, relay-side failures, clock ticks) are       *)
(* counted down in env; each specification starts env at its own bounds.   *)
(*                                                                         *)
(* recoverFailedTransaction is declared @Process('recovery') and is        *)
(* modelled as the consumer of the jobs named 'recovery' that the code     *)
(* adds to gelatoRecoveryQueue, the pairing its unit tests exercise.       *)
(***************************************************************************)
EXTENDS Integers, Sequences, FiniteSets, Bags, TLC

VARIABLES
  ledger,             \* bridge_transactions table: row id = index
  bridgeQueue,        \* bag of processBurn jobs ('bridge' queue)
  statusQueue,        \* bag of check-status jobs ('gelato-status' queue)
  recoveryQueue,      \* bag of recovery jobs ('gelato-recovery' queue)
  recovering,         \* bag of recoverFailedTransaction runs past findUnique
  requestTimestamps,  \* GelatoStatusProcessor.requestTimestamps
  now,                \* Date.now() of the worker, in ms
  burnSight,          \* listener / gap-scan deliveries of TokensBurned
  mintSight,          \* listener / gap-scan deliveries of TokensMinted
  burnEvents,         \* TokensBurned events emitted on chain
  apiLog,             \* history: processBridgeRequest calls with their outcome
  tasks,              \* relay tasks: task id = index
  burnRecords,        \* BridgeToken.burnRecords[burnId].processed, per chain
  token,              \* BridgeToken balances and total supply, per chain
  env,                \* environment choices left
  statusLog,          \* history: status changes written to the ledger
  pollLog,            \* history: terminal relay answers seen by status checks
  polls,              \* history: the getTaskStatus calls made, by task and retryCount
  watch,              \* the listener service: chain heads, providers, gap scans
  submitLog,          \* history: relay submissions issued, by outcome
  recoveryLog,        \* history: recovery jobs added, by origin
  exhausted,          \* history: rows whose ceiling check refused another recovery
  relayCalls,         \* history: outbound relay calls per clock value
  burnJobsAdded       \* history: processBurn jobs added per burn event

vars == <<ledger, bridgeQueue, statusQueue, recoveryQueue, recovering,
          requestTimestamps, now, burnSight, mintSight, burnEvents, apiLog, tasks,
          burnRecords, token, env, statusLog, pollLog, polls, watch, submitLog, recoveryLog, exhausted,
          relayCalls, burnJobsAdded>>

-----------------------------------------------------------------------------
(* Bounds of the model                                                      *)

NumBurnEvents == 1
MaxBurnSightings == 2
MaxMintSightings == 2
MaxTasks == 2
MaxRejects == 1
MaxPendings == 1
MaxRelayFails == 1
MaxTicks == 1
TickMs == 60000
SingleTasks == 3
SingleRejects == 3
SinglePendings == 9
SingleRelayFails == 3
SingleTicks == 1
DupTasks == 2
DupRejects == 4
DupRelayFails == 2
PollPendings == 32
PollTicks == 3
PollTasks == 2
OutcomeRelayFails == 1
OutcomeTasks == 1
MaxMintCalls == 4
MaxBurnIds == 2
MaxRequests == 1
FailRows == 2
FailAttempts == 4
RecoverSightings == 2
RecoverTasks == 4
RecoverRejects == 1
RecoverRelayFails == 2
RecoverQueueFails == 1
ReconnectBlocks == 1
ReconnectOutages == 2
ReconnectFails == 14
FairOutages == 1
FairFails == 10
ScanBlocks == 6
EnqueueFails == 1
EnqueueTasks == 2
EnqueueRelayFails == 1
BlockStep == 6000
WatchSightings == 2
WatchBlocks == 3
WatchOutages == 2
WatchReconnectFails == 2
WatchScanFails == 1

-----------------------------------------------------------------------------
(* Program constants and enums                                              *)

ARBITRUM_SEPOLIA == "arbitrumSepolia"
OPTIMISM_SEPOLIA == "optimismSepolia"
Network == {ARBITRUM_SEPOLIA, OPTIMISM_SEPOLIA}

PENDING == "pending"
PROCESSING == "processing"
COMPLETED == "completed"
FAILED == "failed"
RECOVERY_IN_PROGRESS == "recovery_in_progress"
TransactionStatus ==
  {PENDING, PROCESSING, COMPLETED, FAILED, RECOVERY_IN_PROGRESS}

MAX_RECOVERY_ATTEMPTS == 3
rateLimitWindow == 60000
maxRequestsPerWindow == 10
DispatchMaxRetries == 30
RecoveryMaxRetries == 30
BullAttempts == 3
MAX_RECONNECT_ATTEMPTS == 10
MAX_BLOCKS_PER_QUERY == 10000

NoHash == [kind |-> "none", n |-> 0]
BurnHash(e) == [kind |-> "burn", n |-> e]
MintHash(t) == [kind |-> "mint", n |-> t]
NoTask == 0
Holder == {"0xAbc", "0xDef"}
MintAmounts == {500, 1000}

Min(a, b) == IF a < b THEN a ELSE b

RECURSIVE Pow2(_)
Pow2(n) == IF n = 0 THEN 1 ELSE 2 * Pow2(n - 1)

\* the relay's TaskState values, an empty status and a query error
PendingStates == {"WaitingForConfirmation", "CheckPending", "ExecPending"}
FailedStates == {"ExecReverted", "Cancelled"}
UnknownStates == {"Pending", "Blacklisted", "NotFound"}

-----------------------------------------------------------------------------
(* Initial state: empty ledger and queues, the burns emitted on chain       *)

BurnEventSet ==
  {[from |-> "0xAbc", amount |-> 1000, burnId |-> b, network |-> n] :
     b \in 1..NumBurnEvents, n \in Network}

\* the listener service after onModuleInit: per network the chain head, whether
\* the current provider delivers, the health flag, the reconnect counter, the
\* backup flag, the newest listenToEvents closure's lastProcessedBlock, the
\* reconnectProvider and checkForMissedEvents calls pending (by their
\* lastKnownBlock); the block of each burn (0: not emitted through the
\* watcher), and the burns a live listener or a gap scan still has to hand over.
\* A failed initial connection leaves the flag false and reconnectProvider(0).
\* primaryFailures counts the failed attempts against the primary endpoint
\* since the last successful connection. subscriptions is the number of
\* listenToEvents closures whose provider delivers events: a closure is never
\* unsubscribed, it only goes quiet when its provider stops delivering.
\* inbox holds one copy of an emitted burn for each such closure. scanFrom is
\* the lastKnownBlock of the latest gap scan a reconnection started, queried
\* the <<startBlock, endBlock, currentBlock>> of every queryFilter call made.
WatchStart(ok) ==
  [net |-> [n \in Network |->
              [head |-> 0,
               live |-> ok[n],
               providerHealthStatus |-> ok[n],
               reconnectAttempts |-> 0,
               usingBackupRpc |-> FALSE,
               lastProcessedBlock |-> 0,
               reconnects |-> IF ok[n] THEN {} ELSE {0},
               cooldowns |-> {},
               primaryFailures |-> 0,
               scanFrom |-> 0,
               queried |-> {},
               subscriptions |-> IF ok[n] THEN 1 ELSE 0,
               scans |-> {}]],
   burnBlock |-> [e \in 1..NumBurnEvents |-> 0],
   inbox |-> EmptyBag,
   found |-> {}]

InitAt(budget, ok) ==
  /\ env = budget
  /\ ledger = <<>>
  /\ bridgeQueue = EmptyBag
  /\ statusQueue = EmptyBag
  /\ recoveryQueue = EmptyBag
  /\ recovering = EmptyBag
  /\ requestTimestamps = <<>>
  /\ now = 0
  /\ burnSight = [s \in 1..MaxBurnSightings |-> [pc |-> "idle", ev |-> 0]]
  /\ mintSight = [s \in 1..MaxMintSightings |-> [pc |-> "idle", task |-> 0]]
  /\ burnEvents \in {f \in [1..NumBurnEvents -> BurnEventSet] :
                       \A e \in 1..NumBurnEvents : f[e].burnId = e}
  /\ tasks = <<>>
  /\ apiLog = EmptyBag
  /\ burnRecords = [n \in Network |-> {}]
  /\ token = [n \in Network |->
                [balanceOf |-> [a \in Holder |-> 0], totalSupply |-> 0]]
  /\ statusLog = {}
  /\ pollLog = {}
  /\ polls = EmptyBag
  /\ watch = WatchStart(ok)
  /\ submitLog = EmptyBag
  /\ recoveryLog = EmptyBag
  /\ exhausted = {}
  /\ relayCalls = EmptyBag
  /\ burnJobsAdded = EmptyBag

\* every initial connection succeeds
InitWith(budget) == InitAt(budget, [n \in Network |-> TRUE])

Init ==
  InitWith([burnSightings |-> MaxBurnSightings,
            mintSightings |-> MaxMintSightings,
            tasks |-> MaxTasks,
            rejects |-> MaxRejects,
            pendings |-> MaxPendings,
            relayFails |-> MaxRelayFails,
            ticks |-> MaxTicks])

-----------------------------------------------------------------------------
(* Ledger store                                                             *)

Rows == DOMAIN ledger

\* prisma.bridgeTransaction.create: id, recoveryAttempts and gelatoTaskId
\* take the schema defaults
CreateRow(l, data) ==
  Append(l, [recipient |-> data.recipient,
             amount |-> data.amount,
             sourceNetwork |-> data.sourceNetwork,
             targetNetwork |-> data.targetNetwork,
             sourceTransactionHash |-> data.sourceTransactionHash,
             targetTransactionHash |-> data.targetTransactionHash,
             status |-> data.status,
             gelatoTaskId |-> NoTask,
             burnId |-> data.burnId,
             recoveryAttempts |-> 0])

\* the status change, if any, that writing status st to row id makes
Change(l, id, st) ==
  IF l[id].status = st THEN {} ELSE {<<id, l[id].status, st>>}

UpdateStatus(l, id, st) == [l EXCEPT ![id].status = st]

OtherNetwork(network) ==
  IF network = ARBITRUM_SEPOLIA THEN OPTIMISM_SEPOLIA ELSE ARBITRUM_SEPOLIA

-----------------------------------------------------------------------------
(* Chain watcher: processBurnEvent                                          *)

\* one environment choice of the given kind is used up
\* what is left of a budget; a budget the specification does not give is 0
Budget(kind) == IF kind \in DOMAIN env THEN env[kind] ELSE 0

Spend(kind) ==
  /\ env[kind] > 0
  /\ env' = [env EXCEPT ![kind] = @ - 1]

\* a delivery starts only after the previous slot is in use
SlotFree(sight, s) ==
  /\ sight[s].pc = "idle"
  /\ s > 1 => sight[s - 1].pc # "idle"

\* processBurnEvent is called with event e: findFirst by
\* (sourceTransactionHash, sourceNetwork); return if it exists
BurnSighting(s, e) ==
  /\ SlotFree(burnSight, s)
  /\ Spend("burnSightings")
  /\ LET existingTx ==
           \E i \in Rows :
             /\ ledger[i].sourceTransactionHash = BurnHash(e)
             /\ ledger[i].sourceNetwork = burnEvents[e].network
     IN burnSight' = [burnSight EXCEPT
                        ![s] = [pc |-> IF existingTx THEN "done" ELSE "create",
                                ev |-> e]]
  /\ UNCHANGED <<ledger, bridgeQueue, statusQueue, recoveryQueue, recovering,
                 requestTimestamps, now, mintSight, burnEvents, apiLog, tasks,
                 burnRecords, token, statusLog, pollLog, polls, submitLog,
                 recoveryLog, exhausted, relayCalls, burnJobsAdded>>

\* a delivery of event e by whichever listener or scan carries it
ProcessBurnEventFind(s, e) ==
  /\ BurnSighting(s, e)
  /\ UNCHANGED watch

\* create the PENDING row, then add the processBurn job
ProcessBurnEventCreate(s) ==
  /\ burnSight[s].pc = "create"
  /\ LET e == burnSight[s].ev
         event == burnEvents[e]
         network == event.network
         targetNetwork == OtherNetwork(network)
         bridgeRequest ==
           [recipient |-> event.from,
            amount |-> event.amount,
            sourceNetwork |-> network,
            targetNetwork |-> targetNetwork,
            sourceTransactionHash |-> BurnHash(e),
            burnId |-> event.burnId,
            attemptsMade |-> 0]
     IN /\ ledger' = CreateRow(ledger,
                       [recipient |-> event.from,
                        amount |-> event.amount,
                        sourceNetwork |-> network,
                        targetNetwork |-> targetNetwork,
                        sourceTransactionHash |-> BurnHash(e),
                        targetTransactionHash |-> NoHash,
                        burnId |-> event.burnId,
                        status |-> PENDING])
        /\ \/ /\ bridgeQueue' = bridgeQueue (+) SetToBag({bridgeRequest})
              /\ burnJobsAdded' = burnJobsAdded (+) SetToBag({BurnHash(e)})
              /\ UNCHANGED env
           \/ \* bridgeQueue.add throws; the listener callback logs the error
              /\ Budget("burnQueueFails") > 0
              /\ Spend("burnQueueFails")
              /\ UNCHANGED <<bridgeQueue, burnJobsAdded>>
  /\ burnSight' = [burnSight EXCEPT ![s].pc = "done"]
  /\ UNCHANGED <<statusQueue, recoveryQueue, recovering, requestTimestamps,
                 now, mintSight, burnEvents, apiLog, tasks, burnRecords, token, statusLog,
                 pollLog, polls, watch, submitLog, recoveryLog, exhausted, relayCalls>>

-----------------------------------------------------------------------------
(* Chain watcher: processMintEvent                                          *)

\* TokensMinted of relay task t exists once the mint has executed
MintEmitted(t) == t \in DOMAIN tasks /\ tasks[t].state = "success"

\* a sighting that creates without looking the hash up
ProcessMintEventFindNoLookup(s, t) ==
  /\ SlotFree(mintSight, s)
  /\ Spend("mintSightings")
  /\ MintEmitted(t)
  /\ mintSight' = [mintSight EXCEPT ![s] = [pc |-> "create", task |-> t]]
  /\ UNCHANGED <<ledger, bridgeQueue, statusQueue, recoveryQueue, recovering,
                 requestTimestamps, now, burnSight, burnEvents, apiLog, tasks,
                 burnRecords, token, statusLog, pollLog, polls, watch, submitLog, recoveryLog, exhausted,
                 relayCalls, burnJobsAdded>>

\* findFirst by targetTransactionHash; return if it exists
ProcessMintEventFind(s, t) ==
  /\ SlotFree(mintSight, s)
  /\ Spend("mintSightings")
  /\ MintEmitted(t)
  /\ LET existingTx ==
           \E i \in Rows : ledger[i].targetTransactionHash = MintHash(t)
     IN mintSight' = [mintSight EXCEPT
                        ![s] = [pc |-> IF existingTx THEN "done" ELSE "create",
                                task |-> t]]
  /\ UNCHANGED <<ledger, bridgeQueue, statusQueue, recoveryQueue, recovering,
                 requestTimestamps, now, burnSight, burnEvents, apiLog, tasks,
                 burnRecords, token, statusLog, pollLog, polls, watch, submitLog, recoveryLog, exhausted,
                 relayCalls, burnJobsAdded>>

\* a mint sighting that also hands the event to the dispatch queue
ProcessMintEventCreateEnqueuing(s) ==
  /\ mintSight[s].pc = "create"
  /\ LET t == mintSight[s].task
         network == tasks[t].targetNetwork
     IN ledger' = CreateRow(ledger,
                    [recipient |-> tasks[t].recipient,
                     amount |-> tasks[t].amount,
                     sourceNetwork |-> network,
                     targetNetwork |-> network,
                     sourceTransactionHash |-> MintHash(t),
                     targetTransactionHash |-> MintHash(t),
                     burnId |-> tasks[t].burnId,
                     status |-> COMPLETED])
  /\ mintSight' = [mintSight EXCEPT ![s].pc = "done"]
  /\ bridgeQueue' = bridgeQueue (+) SetToBag({
       [recipient |-> tasks[mintSight[s].task].recipient,
        amount |-> tasks[mintSight[s].task].amount,
        sourceNetwork |-> tasks[mintSight[s].task].targetNetwork,
        targetNetwork |-> OtherNetwork(tasks[mintSight[s].task].targetNetwork),
        sourceTransactionHash |-> MintHash(mintSight[s].task),
        burnId |-> tasks[mintSight[s].task].burnId,
        attemptsMade |-> 0]})
  /\ UNCHANGED <<env, statusQueue, recoveryQueue, recovering,
                 requestTimestamps, now, burnSight, burnEvents, apiLog, tasks,
                 burnRecords, token, statusLog, pollLog, polls, watch, submitLog, recoveryLog, exhausted,
                 relayCalls, burnJobsAdded>>

\* create the COMPLETED row; no job is added
ProcessMintEventCreate(s) ==
  /\ mintSight[s].pc = "create"
  /\ LET t == mintSight[s].task
         network == tasks[t].targetNetwork
     IN ledger' = CreateRow(ledger,
                    [recipient |-> tasks[t].recipient,
                     amount |-> tasks[t].amount,
                     sourceNetwork |-> network,
                     targetNetwork |-> network,
                     sourceTransactionHash |-> MintHash(t),
                     targetTransactionHash |-> MintHash(t),
                     burnId |-> tasks[t].burnId,
                     status |-> COMPLETED])
  /\ mintSight' = [mintSight EXCEPT ![s].pc = "done"]
  /\ UNCHANGED <<env, bridgeQueue, statusQueue, recoveryQueue, recovering,
                 requestTimestamps, now, burnSight, burnEvents, apiLog, tasks,
                 burnRecords, token, statusLog, pollLog, polls, watch, submitLog, recoveryLog, exhausted,
                 relayCalls, burnJobsAdded>>

-----------------------------------------------------------------------------
(* Rate limiter, relay and token contract                                   *)

\* canMakeRequest first drops the timestamps that left the window
FilteredTimestamps ==
  SelectSeq(requestTimestamps, LAMBDA timestamp : now - timestamp < rateLimitWindow)

canMakeRequest == Len(FilteredTimestamps) < maxRequestsPerWindow

\* trackRequest, called right after a successful canMakeRequest
trackRequest == Append(FilteredTimestamps, now)

\* one more outbound relay call at the current clock value
CallIssued == relayCalls (+) SetToBag({now})

\* sponsoredCallERC2771 accepted: the relay registers a task and returns its id
NewTask(kind, transactionId, recipient, amount, burnId, targetNetwork) ==
  [state |-> "pending", kind |-> kind, transactionId |-> transactionId,
   recipient |-> recipient, amount |-> amount, burnId |-> burnId,
   targetNetwork |-> targetNetwork]

Submission(kind, transactionId, accepted) ==
  SetToBag({[kind |-> kind, transactionId |-> transactionId,
             accepted |-> accepted]})

\* answers getTaskStatus can give for task t: its TaskState, an unrecognised
\* state, an empty status ("none") or a failed query ("error")
Responses(t) ==
  {"error"} \cup
  (CASE tasks[t].state = "pending" -> PendingStates \cup UnknownStates \cup {"none"}
     [] tasks[t].state = "success" -> {"ExecSuccess"}
     [] tasks[t].state = "reverted" -> {"ExecReverted"}
     [] tasks[t].state = "cancelled" -> {"Cancelled"})

\* the require clauses of BridgeToken.mint
MintReverts(n, burnId) == burnId \in burnRecords[n] \/ burnId = 0

\* _mint: the balance of `to` and the total supply grow by amount
Credit(tk, to, amount) ==
  [tk EXCEPT !.balanceOf[to] = @ + amount, !.totalSupply = @ + amount]

\* a mint that never looks at the burn record
mintUnrecorded(n, to, amount, burnId) ==
  IF burnId = 0
    THEN UNCHANGED <<burnRecords, token>>
    ELSE /\ burnRecords' = [burnRecords EXCEPT ![n] = @ \cup {burnId}]
         /\ token' = [token EXCEPT ![n] = Credit(@, to, amount)]

\* BridgeToken.mint(to, amount, burnId) on chain n, sent by a bridge operator:
\* a revert leaves the contract as it was
mint(n, to, amount, burnId) ==
  IF MintReverts(n, burnId)
    THEN UNCHANGED <<burnRecords, token>>
    ELSE /\ burnRecords' = [burnRecords EXCEPT ![n] = @ \cup {burnId}]
         /\ token' = [token EXCEPT ![n] = Credit(@, to, amount)]

\* BridgeToken.mint called by the relay for task t
MintAllowed(t) == ~MintReverts(tasks[t].targetNetwork, tasks[t].burnId)

\* the relay executes the task's call on the target chain
RelayExecute(t) ==
  /\ t \in DOMAIN tasks
  /\ tasks[t].state = "pending"
  /\ tasks' = [tasks EXCEPT
                 ![t].state = IF MintAllowed(t) THEN "success" ELSE "reverted"]
  /\ mint(tasks[t].targetNetwork, tasks[t].recipient, tasks[t].amount,
          tasks[t].burnId)
  /\ UNCHANGED <<env, ledger, bridgeQueue, statusQueue, recoveryQueue,
                 recovering, requestTimestamps, now, burnSight, mintSight,
                 burnEvents, apiLog, statusLog, pollLog, polls, watch, submitLog,
                 recoveryLog, exhausted, relayCalls, burnJobsAdded>>

\* a bridge operator calls mint directly
MintCall(n, to, amount, burnId) ==
  /\ Spend("mintCalls")
  /\ mint(n, to, amount, burnId)
  /\ UNCHANGED <<ledger, bridgeQueue, statusQueue, recoveryQueue, recovering,
                 requestTimestamps, now, burnSight, mintSight, burnEvents, apiLog,
                 tasks, statusLog, pollLog, polls, watch, submitLog,
                 recoveryLog, exhausted, relayCalls, burnJobsAdded>>

\* the task fails at the relay without minting (out of gas, cancelled)
RelayFail(t, st) ==
  /\ t \in DOMAIN tasks
  /\ tasks[t].state = "pending"
  /\ st \in {"reverted", "cancelled"}
  /\ Spend("relayFails")
  /\ tasks' = [tasks EXCEPT ![t].state = st]
  /\ UNCHANGED <<ledger, bridgeQueue, statusQueue, recoveryQueue, recovering,
                 requestTimestamps, now, burnSight, mintSight, burnEvents, apiLog,
                 burnRecords, token, statusLog, pollLog, polls, watch, submitLog, recoveryLog, exhausted,
                 relayCalls, burnJobsAdded>>

\* the worker's clock advances
Tick ==
  /\ Spend("ticks")
  /\ now' = now + TickMs
  /\ UNCHANGED <<ledger, bridgeQueue, statusQueue, recoveryQueue, recovering,
                 requestTimestamps, burnSight, mintSight, burnEvents, apiLog, tasks,
                 burnRecords, token, statusLog, pollLog, polls, watch, submitLog, recoveryLog, exhausted,
                 relayCalls, burnJobsAdded>>

-----------------------------------------------------------------------------
(* Job delays, in units of 1/256 ms so that 10000 * 1.5^n stays integral    *)

Ms(x) == x * 256

\* min(base * (num/den)^n, cap), computed without leaving the cap's range
RECURSIVE CappedGrowth(_, _, _, _, _)
CappedGrowth(base, num, den, n, cap) ==
  IF n = 0 THEN Min(base, cap)
  ELSE Min((CappedGrowth(base, num, den, n - 1, cap) * num) \div den, cap)

-----------------------------------------------------------------------------
(* Relay dispatcher: BridgeProcessor.processBurn                            *)

StatusJob(taskId, transactionId, targetNetwork, retryCount, maxRetries, recoveryAttempt, delay) ==
  [taskId |-> taskId, transactionId |-> transactionId,
   targetNetwork |-> targetNetwork, retryCount |-> retryCount,
   maxRetries |-> maxRetries, recoveryAttempt |-> recoveryAttempt,
   delay |-> delay]

\* Bull runs a job that threw again until it has been tried `attempts` times
BullRetry(queue, job) ==
  IF job.attemptsMade + 1 < BullAttempts
    THEN (queue (-) SetToBag({job}))
           (+) SetToBag({[job EXCEPT !.attemptsMade = @ + 1]})
    ELSE queue (-) SetToBag({job})

processBurn(job) ==
  /\ BagIn(job, bridgeQueue)
  /\ LET found == {i \in Rows :
                     ledger[i].sourceTransactionHash = job.sourceTransactionHash}
     IN IF found = {}
          THEN /\ bridgeQueue' = bridgeQueue (-) SetToBag({job})
               /\ UNCHANGED <<env, ledger, statusQueue, tasks, statusLog,
                              submitLog, relayCalls>>
          ELSE \E id \in found :
                 LET l1 == UpdateStatus(ledger, id, PROCESSING)
                     c1 == Change(ledger, id, PROCESSING)
                 IN \/ \* the relay accepts the call and returns a task id
                       /\ Len(tasks) < env.tasks
                       /\ UNCHANGED env
                       /\ tasks' = Append(tasks,
                            NewTask("dispatch", id, job.recipient, job.amount,
                                    job.burnId, job.targetNetwork))
                       /\ ledger' = l1
                       /\ statusLog' = statusLog \cup c1
                       /\ statusQueue' = statusQueue (+) SetToBag({
                            StatusJob(Len(tasks) + 1, id, job.targetNetwork, 0,
                                      DispatchMaxRetries, 0, Ms(10000))})
                       /\ bridgeQueue' = bridgeQueue (-) SetToBag({job})
                       /\ submitLog' = submitLog (+) Submission("dispatch", id, TRUE)
                       /\ relayCalls' = CallIssued
                    \/ \* the call throws: mark FAILED and rethrow
                       \E id2 \in found :
                         /\ Spend("rejects")
                         /\ ledger' = UpdateStatus(l1, id2, FAILED)
                         /\ statusLog' = statusLog \cup c1 \cup Change(l1, id2, FAILED)
                         /\ bridgeQueue' = BullRetry(bridgeQueue, job)
                         /\ submitLog' = submitLog (+) Submission("dispatch", id, FALSE)
                         /\ relayCalls' = CallIssued
                         /\ UNCHANGED <<statusQueue, tasks>>
  /\ UNCHANGED <<recoveryQueue, recovering, requestTimestamps, now, burnSight,
                 mintSight, burnEvents, apiLog, burnRecords, token, pollLog, polls, watch, recoveryLog, exhausted,
                 burnJobsAdded>>

-----------------------------------------------------------------------------
(* Failure handling: GelatoStatusProcessor.handleFailedTransaction          *)

NoBurnId == -1

\* keccak256(recipient, amount, Date.now(), 'recovery'): a fresh token
DerivedBurnId == 1000 + now \div TickMs

RecoveryAdded(transactionId, recoveryAttempt, origin) ==
  SetToBag({[transactionId |-> transactionId,
             recoveryAttempt |-> recoveryAttempt, origin |-> origin]})

\* a ceiling check that lets recoveryAttempt = 3 through
handleFailedTransactionInclusive(transactionId, recoveryAttempt) ==
  IF transactionId \notin Rows
    THEN UNCHANGED <<ledger, statusLog, recoveryQueue, recoveryLog, exhausted>>
    ELSE LET transaction == ledger[transactionId]
             burnId == IF transaction.burnId # NoBurnId
                         THEN transaction.burnId ELSE DerivedBurnId
         IN /\ ledger' = UpdateStatus(ledger, transactionId, FAILED)
            /\ statusLog' = statusLog \cup Change(ledger, transactionId, FAILED)
            /\ IF recoveryAttempt <= MAX_RECOVERY_ATTEMPTS
                 THEN /\ recoveryQueue' = recoveryQueue (+) SetToBag({
                           [transactionId |-> transactionId,
                            sourceTransactionHash |-> transaction.sourceTransactionHash,
                            amount |-> transaction.amount,
                            recipient |-> transaction.recipient,
                            sourceNetwork |-> transaction.sourceNetwork,
                            targetNetwork |-> transaction.targetNetwork,
                            recoveryAttempt |-> recoveryAttempt + 1,
                            burnId |-> burnId,
                            delay |-> Ms(30000)]})
                      /\ recoveryLog' = recoveryLog (+)
                           RecoveryAdded(transactionId, recoveryAttempt + 1,
                                         "handleFailed")
                      /\ UNCHANGED exhausted
                 ELSE /\ exhausted' = exhausted \cup {transactionId}
                      /\ UNCHANGED <<recoveryQueue, recoveryLog>>

\* find the row, mark it FAILED, add a recovery job below the ceiling
handleFailedTransaction(transactionId, recoveryAttempt) ==
  IF transactionId \notin Rows
    THEN UNCHANGED <<ledger, statusLog, recoveryQueue, recoveryLog, exhausted>>
    ELSE LET transaction == ledger[transactionId]
             burnId == IF transaction.burnId # NoBurnId
                         THEN transaction.burnId ELSE DerivedBurnId
         IN /\ ledger' = UpdateStatus(ledger, transactionId, FAILED)
            /\ statusLog' = statusLog \cup Change(ledger, transactionId, FAILED)
            /\ IF recoveryAttempt < MAX_RECOVERY_ATTEMPTS
                 THEN /\ recoveryQueue' = recoveryQueue (+) SetToBag({
                           [transactionId |-> transactionId,
                            sourceTransactionHash |-> transaction.sourceTransactionHash,
                            amount |-> transaction.amount,
                            recipient |-> transaction.recipient,
                            sourceNetwork |-> transaction.sourceNetwork,
                            targetNetwork |-> transaction.targetNetwork,
                            recoveryAttempt |-> recoveryAttempt + 1,
                            burnId |-> burnId,
                            delay |-> Ms(30000)]})
                      /\ recoveryLog' = recoveryLog (+)
                           RecoveryAdded(transactionId, recoveryAttempt + 1,
                                         "handleFailed")
                      /\ UNCHANGED exhausted
                 ELSE /\ exhausted' = exhausted \cup {transactionId}
                      /\ UNCHANGED <<recoveryQueue, recoveryLog>>

\* handleFailedTransaction invoked with the arguments drawn at Init
handleFailedTransactionCall ==
  /\ Spend("failures")
  /\ handleFailedTransaction(env.transactionId, env.recoveryAttempt)
  /\ UNCHANGED <<bridgeQueue, statusQueue, recovering, requestTimestamps, now,
                 burnSight, mintSight, burnEvents, apiLog, tasks, burnRecords,
                 token, pollLog, polls, watch, submitLog, relayCalls,
                 burnJobsAdded>>

-----------------------------------------------------------------------------
(* Task status reconciler: GelatoStatusProcessor.checkGelatoTaskStatus      *)

\* a backoff that doubles instead of growing by one half
queueNextStatusCheckDoubling(queue, job) ==
  queue (+) SetToBag({
    StatusJob(job.taskId, job.transactionId, job.targetNetwork,
              job.retryCount + 1, job.maxRetries, job.recoveryAttempt,
              CappedGrowth(Ms(10000), 2, 1, job.retryCount, Ms(300000)))})

queueNextStatusCheck(queue, job) ==
  queue (+) SetToBag({
    StatusJob(job.taskId, job.transactionId, job.targetNetwork,
              job.retryCount + 1, job.maxRetries, job.recoveryAttempt,
              CappedGrowth(Ms(10000), 3, 2, job.retryCount, Ms(300000)))})

\* a retry test that lets retryCount = maxRetries through once more
RetryOrFailInclusive(job) ==
  IF job.retryCount <= job.maxRetries
    THEN /\ statusQueue' =
              queueNextStatusCheck(statusQueue (-) SetToBag({job}), job)
         /\ UNCHANGED <<ledger, statusLog, recoveryQueue, recoveryLog, exhausted>>
    ELSE /\ statusQueue' = statusQueue (-) SetToBag({job})
         /\ handleFailedTransaction(job.transactionId, job.recoveryAttempt)

\* a non-terminal answer that goes straight to failure handling
RetryOrFailGivingUp(job) ==
  /\ statusQueue' = statusQueue (-) SetToBag({job})
  /\ handleFailedTransaction(job.transactionId, job.recoveryAttempt)

\* retry while retryCount < maxRetries, else failure handling
RetryOrFail(job) ==
  IF job.retryCount < job.maxRetries
    THEN /\ statusQueue' =
              queueNextStatusCheck(statusQueue (-) SetToBag({job}), job)
         /\ UNCHANGED <<ledger, statusLog, recoveryQueue, recoveryLog, exhausted>>
    ELSE /\ statusQueue' = statusQueue (-) SetToBag({job})
         /\ handleFailedTransaction(job.transactionId, job.recoveryAttempt)

\* what ExecSuccess writes without the mint hash
MarkCompletedStatusOnly(l, job) ==
  [l EXCEPT ![job.transactionId] =
     [@ EXCEPT !.status = COMPLETED, !.gelatoTaskId = job.taskId]]

\* the update made on ExecSuccess
MarkCompleted(l, job) ==
  [l EXCEPT ![job.transactionId] =
     [@ EXCEPT !.status = COMPLETED,
               !.gelatoTaskId = job.taskId,
               !.targetTransactionHash = MintHash(job.taskId)]]

\* a deferral that counts as a retry
DeferStatusCheckCounting(queue, job) ==
  (queue (-) SetToBag({job})) (+) SetToBag({
    [job EXCEPT !.retryCount = @ + 1,
                !.delay = CappedGrowth(Ms(5000), 2, 1, job.retryCount, Ms(300000))]})

\* the rate-limit deferral: job.data added again under the deferral delay
DeferStatusCheck(queue, job) ==
  (queue (-) SetToBag({job})) (+) SetToBag({
    [job EXCEPT !.delay =
       CappedGrowth(Ms(5000), 2, 1, job.retryCount, Ms(300000))]})

checkGelatoTaskStatus(job) ==
  /\ BagIn(job, statusQueue)
  /\ IF ~canMakeRequest
       THEN \* rate limit reached: the same job data is added again
            /\ statusQueue' = DeferStatusCheck(statusQueue, job)
            /\ requestTimestamps' = FilteredTimestamps
            /\ UNCHANGED <<env, ledger, statusLog, recoveryQueue, recoveryLog, exhausted,
                           pollLog, polls, relayCalls>>
       ELSE /\ requestTimestamps' = trackRequest
            /\ relayCalls' = CallIssued
            /\ polls' = polls (+) SetToBag({[taskId |-> job.taskId,
                                             retryCount |-> job.retryCount]})
            /\ \E status \in Responses(job.taskId) :
                 /\ CASE status = "ExecSuccess" ->
                           /\ UNCHANGED env
                           /\ pollLog' = pollLog \cup {<<job.taskId, status>>}
                           /\ statusQueue' = statusQueue (-) SetToBag({job})
                           /\ IF job.transactionId \in Rows
                                THEN /\ ledger' = MarkCompleted(ledger, job)
                                     /\ statusLog' = statusLog \cup
                                          Change(ledger, job.transactionId, COMPLETED)
                                ELSE UNCHANGED <<ledger, statusLog>>
                           /\ UNCHANGED <<recoveryQueue, recoveryLog, exhausted>>
                      [] status \in FailedStates ->
                           /\ UNCHANGED env
                           /\ pollLog' = pollLog \cup {<<job.taskId, status>>}
                           /\ statusQueue' = statusQueue (-) SetToBag({job})
                           /\ handleFailedTransaction(job.transactionId,
                                                      job.recoveryAttempt)
                      [] OTHER ->
                           /\ Spend("pendings")
                           /\ UNCHANGED pollLog
                           /\ RetryOrFail(job)
  /\ UNCHANGED <<bridgeQueue, recovering, now, burnSight, mintSight, watch,
                 burnEvents, apiLog, tasks, burnRecords, token, submitLog, burnJobsAdded>>

-----------------------------------------------------------------------------
(* Recovery scheduler: GelatoStatusProcessor.recoverFailedTransaction       *)

\* findUnique and the status guard; a run that passes keeps what it read
\* a findUnique step that goes on whatever the row's status is
recoverFailedTransactionFindAnyStatus(job) ==
  /\ BagIn(job, recoveryQueue)
  /\ recoveryQueue' = recoveryQueue (-) SetToBag({job})
  /\ IF job.transactionId \notin Rows
       THEN UNCHANGED recovering
       ELSE recovering' = recovering (+) SetToBag({
              [job |-> job,
               recoveryAttempts |-> ledger[job.transactionId].recoveryAttempts]})
  /\ UNCHANGED <<env, ledger, bridgeQueue, statusQueue, requestTimestamps, now,
                 burnSight, mintSight, burnEvents, apiLog, tasks, burnRecords, token,
                 statusLog, pollLog, polls, watch, submitLog, recoveryLog,
                 exhausted, relayCalls, burnJobsAdded>>

\* findUnique and the status guard: return unless the row exists and is FAILED
recoverFailedTransactionFind(job) ==
  /\ BagIn(job, recoveryQueue)
  /\ recoveryQueue' = recoveryQueue (-) SetToBag({job})
  /\ IF job.transactionId \notin Rows
        \/ ledger[job.transactionId].status # FAILED
       THEN UNCHANGED recovering
       ELSE recovering' = recovering (+) SetToBag({
              [job |-> job,
               recoveryAttempts |-> ledger[job.transactionId].recoveryAttempts]})
  /\ UNCHANGED <<env, ledger, bridgeQueue, statusQueue, requestTimestamps, now,
                 burnSight, mintSight, burnEvents, apiLog, tasks, burnRecords, token,
                 statusLog, pollLog, polls, watch, submitLog, recoveryLog, exhausted, relayCalls,
                 burnJobsAdded>>

\* an accepted resubmission that leaves the attempt counter alone
RecordRecoveryTaskOnly(l, id, taskId, recoveryAttempts) ==
  [l EXCEPT ![id] = [@ EXCEPT !.gelatoTaskId = taskId]]

\* an update that also stores the burnId the resubmission used
RecordRecoveryTaskAndBurnId(l, id, taskId, recoveryAttempts) ==
  [l EXCEPT ![id] = [@ EXCEPT !.gelatoTaskId = taskId,
                              !.recoveryAttempts = recoveryAttempts + 1,
                              !.burnId = DerivedBurnId]]

\* the update made once the relay has accepted the resubmission: the new
\* task id, and the attempt counter read before RECOVERY_IN_PROGRESS plus one
RecordRecoveryTask(l, id, taskId, recoveryAttempts) ==
  [l EXCEPT ![id] = [@ EXCEPT !.gelatoTaskId = taskId,
                              !.recoveryAttempts = recoveryAttempts + 1]]

\* a delay that does not grow with the attempt
RecoveryRetryDelayFlat(recoveryAttempt) == Ms(60000)

\* delay of the recovery job added by the catch block
RecoveryRetryDelay(recoveryAttempt) == Ms(60000) * Pow2(recoveryAttempt)

\* a resubmission that always derives a fresh token
RecoveryBurnIdFresh(job) == DerivedBurnId

\* job.data.burnId, or a derived token when the job carries none
RecoveryBurnId(job) ==
  IF job.burnId # NoBurnId THEN job.burnId ELSE DerivedBurnId

\* the catch block: re-read the row, mark it FAILED and count the attempt,
\* add the next recovery job below the ceiling
recoverFailedTransactionCatch(l, job) ==
  LET id == job.transactionId
  IN /\ ledger' = [l EXCEPT ![id] =
          [@ EXCEPT !.status = FAILED,
                    !.recoveryAttempts = l[id].recoveryAttempts + 1]]
     /\ IF job.recoveryAttempt < MAX_RECOVERY_ATTEMPTS
          THEN /\ recoveryQueue' = recoveryQueue (+) SetToBag({
                    [job EXCEPT
                       !.recoveryAttempt = @ + 1,
                       !.delay = RecoveryRetryDelay(job.recoveryAttempt)]})
               /\ recoveryLog' = recoveryLog (+)
                    RecoveryAdded(id, job.recoveryAttempt + 1, "catch")
               /\ UNCHANGED exhausted
          ELSE /\ exhausted' = exhausted \cup {id}
               /\ UNCHANGED <<recoveryQueue, recoveryLog>>

\* mark RECOVERY_IN_PROGRESS, check the rate limit, resubmit the mint
recoverFailedTransactionSubmit(run) ==
  /\ BagIn(run, recovering)
  /\ recovering' = recovering (-) SetToBag({run})
  /\ LET job == run.job
         id == job.transactionId
         l1 == UpdateStatus(ledger, id, RECOVERY_IN_PROGRESS)
         c1 == Change(ledger, id, RECOVERY_IN_PROGRESS)
         burnId == RecoveryBurnId(job)
     IN IF ~canMakeRequest
          THEN \* rate limit reached: the same job data is added again
               /\ ledger' = l1
               /\ statusLog' = statusLog \cup c1
               /\ requestTimestamps' = FilteredTimestamps
               /\ recoveryQueue' = recoveryQueue (+) SetToBag({
                    [job EXCEPT !.delay =
                       CappedGrowth(Ms(30000), 2, 1, job.recoveryAttempt,
                                    Ms(3600000))]})
               /\ recoveryLog' = recoveryLog (+)
                    RecoveryAdded(id, job.recoveryAttempt, "rateLimit")
               /\ UNCHANGED <<env, statusQueue, tasks, submitLog, relayCalls,
                              exhausted>>
          ELSE /\ requestTimestamps' = trackRequest
               /\ relayCalls' = CallIssued
               /\ \/ \* accepted: record the task id, count the attempt
                     /\ Len(tasks) < env.tasks
                     /\ UNCHANGED env
                     /\ tasks' = Append(tasks,
                          NewTask("recovery", id, job.recipient, job.amount,
                                  burnId, job.targetNetwork))
                     /\ ledger' = RecordRecoveryTask(l1, id, Len(tasks) + 1,
                                                     run.recoveryAttempts)
                     /\ statusLog' = statusLog \cup c1
                     /\ statusQueue' = statusQueue (+) SetToBag({
                          StatusJob(Len(tasks) + 1, id, job.targetNetwork, 0,
                                    RecoveryMaxRetries, job.recoveryAttempt + 1,
                                    Ms(10000))})
                     /\ submitLog' = submitLog (+) Submission("recovery", id, TRUE)
                     /\ UNCHANGED <<recoveryQueue, recoveryLog, exhausted>>
                  \/ \* rejected: re-mark FAILED, count the attempt, reschedule
                     /\ Spend("rejects")
                     /\ recoverFailedTransactionCatch(l1, job)
                     /\ statusLog' = statusLog \cup c1 \cup Change(l1, id, FAILED)
                     /\ submitLog' = submitLog (+) Submission("recovery", id, FALSE)
                     /\ UNCHANGED <<statusQueue, tasks>>
                  \/ \* accepted and recorded, then gelatoStatusQueue.add throws
                     /\ Len(tasks) < env.tasks
                     /\ Budget("queueFails") > 0
                     /\ Spend("queueFails")
                     /\ tasks' = Append(tasks,
                          NewTask("recovery", id, job.recipient, job.amount,
                                  burnId, job.targetNetwork))
                     /\ recoverFailedTransactionCatch(
                          RecordRecoveryTask(l1, id, Len(tasks) + 1,
                                             run.recoveryAttempts), job)
                     /\ statusLog' = statusLog \cup c1 \cup Change(l1, id, FAILED)
                     /\ submitLog' = submitLog (+) Submission("recovery", id, TRUE)
                     /\ UNCHANGED statusQueue
  /\ UNCHANGED <<bridgeQueue, now, burnSight, mintSight, burnEvents, apiLog,
                 burnRecords, token, pollLog, polls, watch, burnJobsAdded>>

-----------------------------------------------------------------------------
(* API boundary: BridgeService.processBridgeRequest                         *)

\* recipient strings by what ethers.utils.isAddress looks at: the body (40
\* hex digits or not) and the letter case (all one case, a valid EIP-55
\* checksum or a wrong one)
RecipientInputs ==
  [body : {"hex40", "hex39"}, mixedCase : {"none", "checksum", "wrong"}]

isAddress(recipient) ==
  recipient.body = "hex40" /\ recipient.mixedCase # "wrong"

\* amount strings by what ethers.utils.parseEther looks at: a decimal number
\* or not, its sign, whether any digit is non-zero, and the number of
\* fractional digits
AmountInputs ==
  [decimal : BOOLEAN, negative : BOOLEAN, nonZero : BOOLEAN,
   fractionDigits : {18, 19}]

\* parseEther: throws on a string that is no decimal number or has more than
\* 18 fractional digits, else the signed value in wei (here: its sign)
parseEther(amount) ==
  IF ~amount.decimal \/ amount.fractionDigits > 18
    THEN "throws"
    ELSE IF ~amount.nonZero THEN "zero"
    ELSE IF amount.negative THEN "negative" ELSE "positive"

RequestInputs ==
  [recipient : RecipientInputs, amount : AmountInputs,
   sourceNetwork : Network, targetNetwork : Network,
   contractAddress : BOOLEAN, apiKey : BOOLEAN]

\* a validation that lets a zero amount through
ValidationErrorZeroAllowed(req) ==
  IF req.sourceNetwork = req.targetNetwork
    THEN "Source and target networks must be different"
  ELSE IF ~isAddress(req.recipient) THEN "Invalid recipient address"
  ELSE IF parseEther(req.amount) \in {"throws", "negative"}
    THEN "Invalid amount"
  ELSE IF ~req.contractAddress THEN "Contract not configured"
  ELSE IF ~req.apiKey THEN "Gelato API key is not configured"
  ELSE "none"

\* the checks made before the relay is called, in the code's order; each
\* throws BadRequestException
ValidationError(req) ==
  IF req.sourceNetwork = req.targetNetwork
    THEN "Source and target networks must be different"
  ELSE IF ~isAddress(req.recipient) THEN "Invalid recipient address"
  ELSE IF parseEther(req.amount) # "positive" THEN "Invalid amount"
  ELSE IF ~req.contractAddress THEN "Contract not configured"
  ELSE IF ~req.apiKey THEN "Gelato API key is not configured"
  ELSE "none"

\* processBridgeRequest: validate, then submit the burn call to the relay;
\* a rejected submission is reported as a bad request as well
processBridgeRequest(req) ==
  /\ Spend("requests")
  /\ IF ValidationError(req) # "none"
       THEN /\ apiLog' = apiLog (+) SetToBag({
                 [request |-> req, outcome |-> "BadRequestException"]})
            /\ UNCHANGED <<submitLog, relayCalls>>
       ELSE \E accepted \in BOOLEAN :
              /\ apiLog' = apiLog (+) SetToBag({
                   [request |-> req,
                    outcome |-> IF accepted THEN "initiated"
                                            ELSE "BadRequestException"]})
              /\ submitLog' = submitLog (+) Submission("burn", 0, accepted)
              /\ relayCalls' = CallIssued
  /\ UNCHANGED <<ledger, bridgeQueue, statusQueue, recoveryQueue, recovering,
                 requestTimestamps, now, burnSight, mintSight, burnEvents,
                 tasks, burnRecords, token, statusLog, pollLog, polls, watch,
                 recoveryLog, exhausted, burnJobsAdded>>

-----------------------------------------------------------------------------
(* Chain watcher: providers, reconnection and the gap scan                  *)

\* a block is mined on network n; the newest closure's 'block' handler records
\* it when the provider delivers
NextBlock(w, n) ==
  [w EXCEPT !.net[n].head = @ + BlockStep,
            !.net[n].lastProcessedBlock =
              IF w.net[n].live THEN w.net[n].head + BlockStep ELSE @]

\* a block without bridge events
NewBlock(n) ==
  /\ Spend("blocks")
  /\ watch' = NextBlock(watch, n)
  /\ UNCHANGED <<ledger, bridgeQueue, statusQueue, recoveryQueue, recovering,
                 requestTimestamps, now, burnSight, mintSight, burnEvents, apiLog,
                 tasks, burnRecords, token, statusLog, pollLog, polls, submitLog,
                 recoveryLog, exhausted, relayCalls, burnJobsAdded>>

\* TokensBurned e is emitted in a new block of its network; the contract
\* listener receives it when the provider delivers
EmitBurn(e) ==
  /\ watch.burnBlock[e] = 0
  /\ Spend("blocks")
  /\ LET n == burnEvents[e].network
         w == NextBlock(watch, n)
     IN watch' = [w EXCEPT !.burnBlock[e] = w.net[n].head,
                           !.inbox = IF w.net[n].live
                                     THEN @ (+) [x \in {e} |-> w.net[n].subscriptions]
                                     ELSE @]
  /\ UNCHANGED <<ledger, bridgeQueue, statusQueue, recoveryQueue, recovering,
                 requestTimestamps, now, burnSight, mintSight, burnEvents, apiLog,
                 tasks, burnRecords, token, statusLog, pollLog, polls, submitLog,
                 recoveryLog, exhausted, relayCalls, burnJobsAdded>>

\* the contract.on(TokensBurned) callback runs processBurnEvent
LiveBurn(s, e) ==
  /\ BagIn(e, watch.inbox)
  /\ BurnSighting(s, e)
  /\ watch' = [watch EXCEPT !.inbox = @ (-) SetToBag({e})]

\* the provider of network n stops delivering and raises 'error' or
\* 'disconnect': reconnectProvider(network, lastProcessedBlock)
ProviderError(n) ==
  /\ watch.net[n].live
  /\ watch.net[n].providerHealthStatus
  /\ Spend("outages")
  /\ watch' = [watch EXCEPT
                 !.net[n].live = FALSE,
                 !.net[n].subscriptions = 0,
                 !.net[n].providerHealthStatus = FALSE,
                 !.net[n].reconnects = @ \cup {watch.net[n].lastProcessedBlock}]
  /\ UNCHANGED <<ledger, bridgeQueue, statusQueue, recoveryQueue, recovering,
                 requestTimestamps, now, burnSight, mintSight, burnEvents, apiLog,
                 tasks, burnRecords, token, statusLog, pollLog, polls, submitLog,
                 recoveryLog, exhausted, relayCalls, burnJobsAdded>>

\* a failed probe that flips the flag and starts no reconnection
HealthCheckFailsSilently(n) ==
  /\ watch.net[n].live
  /\ watch.net[n].providerHealthStatus
  /\ Spend("outages")
  /\ watch' = [watch EXCEPT !.net[n].live = FALSE,
                            !.net[n].subscriptions = 0,
                            !.net[n].providerHealthStatus = FALSE,
                            !.net[n].reconnects = @]
  /\ UNCHANGED <<ledger, bridgeQueue, statusQueue, recoveryQueue, recovering,
                 requestTimestamps, now, burnSight, mintSight, burnEvents, apiLog,
                 tasks, burnRecords, token, statusLog, pollLog, polls, submitLog,
                 recoveryLog, exhausted, relayCalls, burnJobsAdded>>

\* the provider of network n stops delivering and the next checkProvidersHealth
\* probe fails: reconnectProvider(network, 0)
HealthCheckFails(n) ==
  /\ watch.net[n].live
  /\ watch.net[n].providerHealthStatus
  /\ Spend("outages")
  /\ watch' = [watch EXCEPT !.net[n].live = FALSE,
                            !.net[n].subscriptions = 0,
                            !.net[n].providerHealthStatus = FALSE,
                            !.net[n].reconnects = @ \cup {0}]
  /\ UNCHANGED <<ledger, bridgeQueue, statusQueue, recoveryQueue, recovering,
                 requestTimestamps, now, burnSight, mintSight, burnEvents, apiLog,
                 tasks, burnRecords, token, statusLog, pollLog, polls, submitLog,
                 recoveryLog, exhausted, relayCalls, burnJobsAdded>>

\* the probe passes on the backup endpoint and the draw is below 0.2: back to
\* the primary with reconnectProvider(network, 0)
HealthCheckSwitchBack(n) ==
  /\ watch.net[n].live
  /\ watch.net[n].providerHealthStatus
  /\ watch.net[n].usingBackupRpc
  /\ watch' = [watch EXCEPT !.net[n].usingBackupRpc = FALSE,
                            !.net[n].reconnects = @ \cup {0}]
  /\ UNCHANGED <<ledger, bridgeQueue, statusQueue, recoveryQueue, recovering,
                 requestTimestamps, now, burnSight, mintSight, burnEvents, apiLog,
                 tasks, burnRecords, token, env, statusLog, pollLog, polls, submitLog,
                 recoveryLog, exhausted, relayCalls, burnJobsAdded>>

\* a ceiling test that lets an attempt through at counter 10
reconnectProviderLateCeiling(n, lastKnownBlock) ==
  /\ lastKnownBlock \in watch.net[n].reconnects
  /\ LET attempts == watch.net[n].reconnectAttempts + 1
         useBackup == attempts >= 3 /\ ~watch.net[n].usingBackupRpc
     IN IF watch.net[n].reconnectAttempts > MAX_RECONNECT_ATTEMPTS
        THEN /\ watch' = [watch EXCEPT
                  !.net[n].reconnects = @ \ {lastKnownBlock},
                  !.net[n].cooldowns = @ \cup {lastKnownBlock}]
             /\ UNCHANGED env
        ELSE \/ /\ watch' = [watch EXCEPT
                     !.net[n].reconnectAttempts = 0,
                     !.net[n].primaryFailures = 0,
                     !.net[n].providerHealthStatus = TRUE,
                     !.net[n].usingBackupRpc = useBackup,
                     !.net[n].live = TRUE,
                     !.net[n].subscriptions = @ + 1,
                     !.net[n].lastProcessedBlock = 0,
                     !.net[n].reconnects = @ \ {lastKnownBlock},
                     !.net[n].scanFrom =
                       IF lastKnownBlock > 0 THEN lastKnownBlock ELSE @,
                     !.net[n].scans =
                       IF lastKnownBlock > 0 THEN @ \cup {lastKnownBlock} ELSE @]
                /\ UNCHANGED env
             \/ /\ Spend("reconnectFails")
                /\ watch' = [watch EXCEPT
                     !.net[n].reconnectAttempts = attempts,
                     !.net[n].primaryFailures =
                       IF useBackup \/ watch.net[n].usingBackupRpc
                       THEN @ ELSE @ + 1,
                     !.net[n].usingBackupRpc = @ \/ useBackup]
  /\ UNCHANGED <<ledger, bridgeQueue, statusQueue, recoveryQueue, recovering,
                 requestTimestamps, now, burnSight, mintSight, burnEvents, apiLog,
                 tasks, burnRecords, token, statusLog, pollLog, polls, submitLog,
                 recoveryLog, exhausted, relayCalls, burnJobsAdded>>

\* reconnectProvider(network, lastKnownBlock): at the attempt ceiling only
\* the 60 s timer is set; else the attempt either connects
\* (new provider, new listenToEvents closure, and the gap scan only for
\* lastKnownBlock > 0) or fails and is scheduled again with the same block
reconnectProvider(n, lastKnownBlock) ==
  /\ lastKnownBlock \in watch.net[n].reconnects
  /\ LET attempts == watch.net[n].reconnectAttempts + 1
         useBackup == attempts >= 3 /\ ~watch.net[n].usingBackupRpc
     IN IF watch.net[n].reconnectAttempts >= MAX_RECONNECT_ATTEMPTS
        THEN /\ watch' = [watch EXCEPT
                  !.net[n].reconnects = @ \ {lastKnownBlock},
                  !.net[n].cooldowns = @ \cup {lastKnownBlock}]
             /\ UNCHANGED env
        ELSE \/ /\ watch' = [watch EXCEPT
                     !.net[n].reconnectAttempts = 0,
                     !.net[n].primaryFailures = 0,
                     !.net[n].providerHealthStatus = TRUE,
                     !.net[n].usingBackupRpc = useBackup,
                     !.net[n].live = TRUE,
                     !.net[n].subscriptions = @ + 1,
                     !.net[n].lastProcessedBlock = 0,
                     !.net[n].reconnects = @ \ {lastKnownBlock},
                     !.net[n].scanFrom =
                       IF lastKnownBlock > 0 THEN lastKnownBlock ELSE @,
                     !.net[n].scans =
                       IF lastKnownBlock > 0 THEN @ \cup {lastKnownBlock} ELSE @]
                /\ UNCHANGED env
             \/ /\ Spend("reconnectFails")
                /\ watch' = [watch EXCEPT
                     !.net[n].reconnectAttempts = attempts,
                     !.net[n].primaryFailures =
                       IF useBackup \/ watch.net[n].usingBackupRpc
                       THEN @ ELSE @ + 1,
                     !.net[n].usingBackupRpc = @ \/ useBackup]
  /\ UNCHANGED <<ledger, bridgeQueue, statusQueue, recoveryQueue, recovering,
                 requestTimestamps, now, burnSight, mintSight, burnEvents, apiLog,
                 tasks, burnRecords, token, statusLog, pollLog, polls, submitLog,
                 recoveryLog, exhausted, relayCalls, burnJobsAdded>>

\* the 60 s timer set at the ceiling fires: the counter is reset and
\* reconnectProvider is called again with the same block
ReconnectCooldown(n, lastKnownBlock) ==
  /\ lastKnownBlock \in watch.net[n].cooldowns
  /\ watch' = [watch EXCEPT
                 !.net[n].reconnectAttempts = 0,
                 !.net[n].cooldowns = @ \ {lastKnownBlock},
                 !.net[n].reconnects = @ \cup {lastKnownBlock}]
  /\ UNCHANGED <<ledger, bridgeQueue, statusQueue, recoveryQueue, recovering,
                 requestTimestamps, now, burnSight, mintSight, burnEvents, apiLog,
                 tasks, burnRecords, token, env, statusLog, pollLog, polls,
                 submitLog, recoveryLog, exhausted, relayCalls, burnJobsAdded>>

\* the burns of network n in blocks from..to, as queryFilter returns them
QueryFilter(n, from, to) ==
  {e \in 1..NumBurnEvents :
     /\ burnEvents[e].network = n
     /\ watch.burnBlock[e] >= from
     /\ watch.burnBlock[e] <= to}

\* a scan that starts at lastKnownBlock itself
checkForMissedEventsFromLast(n, lastKnownBlock) ==
  /\ lastKnownBlock \in watch.net[n].scans
  /\ LET currentBlock == watch.net[n].head
         startBlock == lastKnownBlock
         endBlock == Min(currentBlock, startBlock + MAX_BLOCKS_PER_QUERY - 1)
         done == [watch EXCEPT !.net[n].scans = @ \ {lastKnownBlock}]
     IN \/ /\ watch.net[n].live
           /\ UNCHANGED env
           /\ watch' =
                IF lastKnownBlock >= currentBlock
                THEN done
                ELSE [done EXCEPT
                        !.net[n].scans =
                          IF endBlock < currentBlock THEN @ \cup {endBlock} ELSE @,
                        !.net[n].queried =
                          @ \cup {<<startBlock, endBlock, currentBlock>>},
                        !.found = @ \cup QueryFilter(n, startBlock, endBlock)]
        \/ /\ IF watch.net[n].live THEN Spend("scanFails") ELSE UNCHANGED env
           /\ watch' = done
  /\ UNCHANGED <<ledger, bridgeQueue, statusQueue, recoveryQueue, recovering,
                 requestTimestamps, now, burnSight, mintSight, burnEvents, apiLog,
                 tasks, burnRecords, token, statusLog, pollLog, polls, submitLog,
                 recoveryLog, exhausted, relayCalls, burnJobsAdded>>

\* checkForMissedEvents(network, lastKnownBlock): one chunk of at most
\* MAX_BLOCKS_PER_QUERY blocks, the rest scheduled from endBlock; any error
\* (provider down, a getBlockNumber or queryFilter timeout) is only logged
checkForMissedEvents(n, lastKnownBlock) ==
  /\ lastKnownBlock \in watch.net[n].scans
  /\ LET currentBlock == watch.net[n].head
         startBlock == lastKnownBlock + 1
         endBlock == Min(currentBlock, startBlock + MAX_BLOCKS_PER_QUERY - 1)
         done == [watch EXCEPT !.net[n].scans = @ \ {lastKnownBlock}]
     IN \/ /\ watch.net[n].live
           /\ UNCHANGED env
           /\ watch' =
                IF lastKnownBlock >= currentBlock
                THEN done
                ELSE [done EXCEPT
                        !.net[n].scans =
                          IF endBlock < currentBlock THEN @ \cup {endBlock} ELSE @,
                        !.net[n].queried =
                          @ \cup {<<startBlock, endBlock, currentBlock>>},
                        !.found = @ \cup QueryFilter(n, startBlock, endBlock)]
        \/ /\ IF watch.net[n].live THEN Spend("scanFails") ELSE UNCHANGED env
           /\ watch' = done
  /\ UNCHANGED <<ledger, bridgeQueue, statusQueue, recoveryQueue, recovering,
                 requestTimestamps, now, burnSight, mintSight, burnEvents, apiLog,
                 tasks, burnRecords, token, statusLog, pollLog, polls, submitLog,
                 recoveryLog, exhausted, relayCalls, burnJobsAdded>>

\* the gap scan hands a burn it found to processBurnEvent
ScanDeliver(s, e) ==
  /\ e \in watch.found
  /\ BurnSighting(s, e)
  /\ watch' = [watch EXCEPT !.found = @ \ {e}]

-----
(* The system                                                               *)

Next ==
  \/ \E s \in 1..MaxBurnSightings, e \in 1..NumBurnEvents :
       ProcessBurnEventFind(s, e)
  \/ \E s \in 1..MaxBurnSightings : ProcessBurnEventCreate(s)
  \/ \E s \in 1..MaxMintSightings, t \in DOMAIN tasks :
       ProcessMintEventFind(s, t)
  \/ \E s \in 1..MaxMintSightings : ProcessMintEventCreate(s)
  \/ \E job \in BagToSet(bridgeQueue) : processBurn(job)
  \/ \E job \in BagToSet(statusQueue) : checkGelatoTaskStatus(job)
  \/ \E job \in BagToSet(recoveryQueue) : recoverFailedTransactionFind(job)
  \/ \E run \in BagToSet(recovering) : recoverFailedTransactionSubmit(run)
  \/ \E t \in DOMAIN tasks : RelayExecute(t)
  \/ \E t \in DOMAIN tasks, st \in {"reverted", "cancelled"} : RelayFail(t, st)
  \/ Tick

Spec == Init /\ [][Next]_vars

\* One delivery of the burn: the workflow of a single row, followed deep
\* (repeated failure, recovery up to its ceiling, a full rate-limit window)
InitSingle ==
  InitWith([burnSightings |-> 1,
            mintSightings |-> 0,
            tasks |-> SingleTasks,
            rejects |-> SingleRejects,
            pendings |-> SinglePendings,
            relayFails |-> SingleRelayFails,
            ticks |-> SingleTicks])

NextSingle ==
  \/ \E s \in 1..MaxBurnSightings, e \in 1..NumBurnEvents :
       ProcessBurnEventFind(s, e)
  \/ \E s \in 1..MaxBurnSightings : ProcessBurnEventCreate(s)
  \/ \E job \in BagToSet(bridgeQueue) : processBurn(job)
  \/ \E job \in BagToSet(statusQueue) : checkGelatoTaskStatus(job)
  \/ \E job \in BagToSet(recoveryQueue) : recoverFailedTransactionFind(job)
  \/ \E run \in BagToSet(recovering) : recoverFailedTransactionSubmit(run)
  \/ \E t \in DOMAIN tasks : RelayExecute(t)
  \/ \E t \in DOMAIN tasks, st \in {"reverted", "cancelled"} : RelayFail(t, st)
  \/ Tick

SpecSingle == InitSingle /\ [][NextSingle]_vars

\* Two overlapping deliveries of the burn and the recovery workflows that
\* follow from them, without the clock
InitDup ==
  InitWith([burnSightings |-> MaxBurnSightings,
            mintSightings |-> 0,
            tasks |-> DupTasks,
            rejects |-> DupRejects,
            pendings |-> 0,
            relayFails |-> DupRelayFails,
            ticks |-> 0])

NextDup ==
  \/ \E s \in 1..MaxBurnSightings, e \in 1..NumBurnEvents :
       ProcessBurnEventFind(s, e)
  \/ \E s \in 1..MaxBurnSightings : ProcessBurnEventCreate(s)
  \/ \E job \in BagToSet(bridgeQueue) : processBurn(job)
  \/ \E job \in BagToSet(statusQueue) : checkGelatoTaskStatus(job)
  \/ \E job \in BagToSet(recoveryQueue) : recoverFailedTransactionFind(job)
  \/ \E run \in BagToSet(recovering) : recoverFailedTransactionSubmit(run)
  \/ \E t \in DOMAIN tasks : RelayExecute(t)
  \/ \E t \in DOMAIN tasks, st \in {"reverted", "cancelled"} : RelayFail(t, st)

SpecDup == InitDup /\ [][NextDup]_vars

\* One delivery, one task that the relay keeps reporting as not finished:
\* the status-check chain followed to its last retry across rate-limit windows
InitPoll ==
  InitWith([burnSightings |-> 1,
            mintSightings |-> 0,
            tasks |-> PollTasks,
            rejects |-> 0,
            pendings |-> PollPendings,
            relayFails |-> 0,
            ticks |-> PollTicks])

NextPoll ==
  \/ \E s \in 1..MaxBurnSightings, e \in 1..NumBurnEvents :
       ProcessBurnEventFind(s, e)
  \/ \E s \in 1..MaxBurnSightings : ProcessBurnEventCreate(s)
  \/ \E job \in BagToSet(bridgeQueue) : processBurn(job)
  \/ \E job \in BagToSet(statusQueue) : checkGelatoTaskStatus(job)
  \/ \E job \in BagToSet(recoveryQueue) : recoverFailedTransactionFind(job)
  \/ \E run \in BagToSet(recovering) : recoverFailedTransactionSubmit(run)
  \/ Tick

SpecPoll == InitPoll /\ [][NextPoll]_vars

\* One delivery and a relay that may answer anything: a status-check chain
\* long enough to reach maxRetries, with tasks that execute, fail or stay
\* pending
InitOutcome ==
  InitWith([burnSightings |-> 1,
            mintSightings |-> 0,
            tasks |-> OutcomeTasks,
            rejects |-> 0,
            pendings |-> PollPendings,
            relayFails |-> OutcomeRelayFails,
            ticks |-> PollTicks])

NextOutcome ==
  \/ \E s \in 1..MaxBurnSightings, e \in 1..NumBurnEvents :
       ProcessBurnEventFind(s, e)
  \/ \E s \in 1..MaxBurnSightings : ProcessBurnEventCreate(s)
  \/ \E job \in BagToSet(bridgeQueue) : processBurn(job)
  \/ \E job \in BagToSet(statusQueue) : checkGelatoTaskStatus(job)
  \/ \E job \in BagToSet(recoveryQueue) : recoverFailedTransactionFind(job)
  \/ \E run \in BagToSet(recovering) : recoverFailedTransactionSubmit(run)
  \/ Tick
  \/ \E t \in DOMAIN tasks : RelayExecute(t)
  \/ \E t \in DOMAIN tasks, st \in {"reverted", "cancelled"} : RelayFail(t, st)

SpecOutcome == InitOutcome /\ [][NextOutcome]_vars

\* The BridgeToken contract on its own: bridge operators call mint with any
\* recipient, amount and burnId, zero and used ones included
InitMint == InitWith([mintCalls |-> MaxMintCalls])

NextMint ==
  \E n \in Network, to \in Holder, amount \in MintAmounts, burnId \in 0..MaxBurnIds :
    MintCall(n, to, amount, burnId)

SpecMint == InitMint /\ [][NextMint]_vars

\* The API boundary on its own: bridge requests with any input
InitApi == InitWith([requests |-> MaxRequests])

NextApi == \E req \in RequestInputs : processBridgeRequest(req)

SpecApi == InitApi /\ [][NextApi]_vars

\* handleFailedTransaction called once with any row id and recoveryAttempt,
\* at any point of the workflow of a single row
InitFail ==
  \E id \in 1..FailRows, attempt \in 0..FailAttempts :
    InitWith([burnSightings |-> 1, mintSightings |-> 0, tasks |-> 1,
              rejects |-> 1, pendings |-> 1, relayFails |-> 0, ticks |-> 0,
              failures |-> 1, transactionId |-> id,
              recoveryAttempt |-> attempt])

NextFail ==
  \/ \E s \in 1..MaxBurnSightings, e \in 1..NumBurnEvents :
       ProcessBurnEventFind(s, e)
  \/ \E s \in 1..MaxBurnSightings : ProcessBurnEventCreate(s)
  \/ \E job \in BagToSet(bridgeQueue) : processBurn(job)
  \/ \E job \in BagToSet(statusQueue) : checkGelatoTaskStatus(job)
  \/ \E t \in DOMAIN tasks : RelayExecute(t)
  \/ handleFailedTransactionCall

SpecFail == InitFail /\ [][NextFail]_vars

\* Recovery resubmissions that the relay accepts, with a status queue that
\* can refuse a job, and deliveries of the burn that can overlap
InitRecover ==
  InitWith([burnSightings |-> RecoverSightings,
            mintSightings |-> 0,
            tasks |-> RecoverTasks,
            rejects |-> RecoverRejects,
            pendings |-> 0,
            relayFails |-> RecoverRelayFails,
            ticks |-> 0,
            queueFails |-> RecoverQueueFails])

NextRecover ==
  \/ \E s \in 1..MaxBurnSightings, e \in 1..NumBurnEvents :
       ProcessBurnEventFind(s, e)
  \/ \E s \in 1..MaxBurnSightings : ProcessBurnEventCreate(s)
  \/ \E job \in BagToSet(bridgeQueue) : processBurn(job)
  \/ \E job \in BagToSet(statusQueue) : checkGelatoTaskStatus(job)
  \/ \E job \in BagToSet(recoveryQueue) : recoverFailedTransactionFind(job)
  \/ \E run \in BagToSet(recovering) : recoverFailedTransactionSubmit(run)
  \/ \E t \in DOMAIN tasks, st \in {"reverted", "cancelled"} : RelayFail(t, st)

SpecRecover == InitRecover /\ [][NextRecover]_vars

\* the listener service with its providers: burns reach processBurnEvent only
\* through a live listener or a gap scan; either initial connection may fail
InitWatch ==
  \E ok \in [Network -> BOOLEAN] :
    InitAt([burnSightings |-> WatchSightings,
            blocks |-> WatchBlocks,
            outages |-> WatchOutages,
            reconnectFails |-> WatchReconnectFails,
            scanFails |-> WatchScanFails], ok)

NextWatch ==
  \/ \E n \in Network : NewBlock(n)
  \/ \E e \in 1..NumBurnEvents : EmitBurn(e)
  \/ \E s \in 1..MaxBurnSightings, e \in 1..NumBurnEvents : LiveBurn(s, e)
  \/ \E n \in Network : ProviderError(n)
  \/ \E n \in Network : HealthCheckFails(n)
  \/ \E n \in Network : HealthCheckSwitchBack(n)
  \/ \E n \in Network : \E k \in watch.net[n].reconnects :
       reconnectProvider(n, k)
  \/ \E n \in Network : \E k \in watch.net[n].scans :
       checkForMissedEvents(n, k)
  \/ \E s \in 1..MaxBurnSightings, e \in 1..NumBurnEvents : ScanDeliver(s, e)
  \/ \E s \in 1..MaxBurnSightings : ProcessBurnEventCreate(s)

SpecWatch == InitWatch /\ [][NextWatch]_vars

\* The reconnection chains of the listener service, with enough failed
\* attempts to reach the ceiling and go past its cooldown
InitReconnect ==
  \E ok \in [Network -> BOOLEAN] :
    InitAt([burnSightings |-> 0,
            blocks |-> ReconnectBlocks,
            outages |-> ReconnectOutages,
            reconnectFails |-> ReconnectFails,
            scanFails |-> 0], ok)

NextReconnect ==
  \/ \E n \in Network : NewBlock(n)
  \/ \E n \in Network : ProviderError(n)
  \/ \E n \in Network : HealthCheckFails(n)
  \/ \E n \in Network : HealthCheckSwitchBack(n)
  \/ \E n \in Network : \E k \in watch.net[n].reconnects :
       reconnectProvider(n, k)
  \/ \E n \in Network : \E k \in watch.net[n].cooldowns :
       ReconnectCooldown(n, k)
  \/ \E n \in Network : \E k \in watch.net[n].scans :
       checkForMissedEvents(n, k)

SpecReconnect == InitReconnect /\ [][NextReconnect]_vars

\* Two deliveries of the burn with a dispatch queue that can refuse a job
InitEnqueue ==
  InitWith([burnSightings |-> MaxBurnSightings,
            mintSightings |-> 0,
            tasks |-> EnqueueTasks,
            rejects |-> 0,
            pendings |-> 0,
            relayFails |-> EnqueueRelayFails,
            ticks |-> 0,
            burnQueueFails |-> EnqueueFails])

NextEnqueue ==
  \/ \E s \in 1..MaxBurnSightings, e \in 1..NumBurnEvents :
       ProcessBurnEventFind(s, e)
  \/ \E s \in 1..MaxBurnSightings : ProcessBurnEventCreate(s)
  \/ \E job \in BagToSet(bridgeQueue) : processBurn(job)
  \/ \E job \in BagToSet(statusQueue) : checkGelatoTaskStatus(job)
  \/ \E job \in BagToSet(recoveryQueue) : recoverFailedTransactionFind(job)
  \/ \E run \in BagToSet(recovering) : recoverFailedTransactionSubmit(run)
  \/ \E t \in DOMAIN tasks : RelayExecute(t)
  \/ \E t \in DOMAIN tasks, st \in {"reverted", "cancelled"} : RelayFail(t, st)

SpecEnqueue == InitEnqueue /\ [][NextEnqueue]_vars

\* One outage of a chain and the gap scan that the reconnection starts, with
\* enough blocks for several chunks; the continuation timers fire
InitScan ==
  InitWith([burnSightings |-> 0,
            blocks |-> ScanBlocks,
            outages |-> 1,
            reconnectFails |-> 0,
            scanFails |-> 0])

NextScan ==
  \/ \E n \in Network : NewBlock(n)
  \/ \E n \in Network : ProviderError(n)
  \/ \E n \in Network : \E k \in watch.net[n].reconnects :
       reconnectProvider(n, k)
  \/ \E n \in Network : \E k \in watch.net[n].scans :
       checkForMissedEvents(n, k)

SpecScan ==
  /\ InitScan
  /\ [][NextScan]_vars
  /\ \A n \in Network :
       WF_vars(\E k \in watch.net[n].scans : checkForMissedEvents(n, k))

\* timers fire and the calls they make run: a pending reconnectProvider call
\* and a pending cooldown timer of a chain are not postponed forever
InitReconnectFair ==
  \E ok \in [Network -> BOOLEAN] :
    InitAt([burnSightings |-> 0,
            blocks |-> ReconnectBlocks,
            outages |-> FairOutages,
            reconnectFails |-> FairFails,
            scanFails |-> 0], ok)

SpecReconnectFair ==
  /\ InitReconnectFair
  /\ [][NextReconnect]_vars
  /\ \A n \in Network :
       /\ WF_vars(\E k \in watch.net[n].reconnects : reconnectProvider(n, k))
       /\ WF_vars(\E k \in watch.net[n].cooldowns : ReconnectCooldown(n, k))

-----------------------------------------------------------------------------
(* Vocabulary of the claims                                                 *)

RowsOfBurn(e) ==
  {i \in Rows : /\ ledger[i].sourceTransactionHash = BurnHash(e)
                /\ ledger[i].sourceNetwork = burnEvents[e].network}

RowsWithTarget(h) == {i \in Rows : ledger[i].targetTransactionHash = h}

\* deliveries of burn event e that have started
DeliveriesOf(e) ==
  {s \in 1..MaxBurnSightings : burnSight[s].pc # "idle" /\ burnSight[s].ev = e}

\* a dispatch, status-check or recovery job is queued or running for row r
Outstanding(r) ==
  \/ \E job \in BagToSet(bridgeQueue) :
       job.sourceTransactionHash = ledger[r].sourceTransactionHash
  \/ \E job \in BagToSet(statusQueue) : job.transactionId = r
  \/ \E job \in BagToSet(recoveryQueue) : job.transactionId = r
  \/ \E run \in BagToSet(recovering) : run.job.transactionId = r

\* a recovery job has been added for row r
RecoveryScheduled(r) ==
  \E entry \in BagToSet(recoveryLog) : entry.transactionId = r

\* rows written by processMintEvent for the mint of relay task t
MintRows(t) == {i \in Rows : ledger[i].sourceTransactionHash = MintHash(t)}

\* outbound relay calls issued in the window of rateLimitWindow ms that
\* starts at clock value w
CallsInWindow(w) ==
  LET inWindow == {t \in BagToSet(relayCalls) :
                     t >= w /\ t - w < rateLimitWindow}
  IN BagCardinality([t \in inWindow |-> CopiesIn(t, relayCalls)])

\* row r is the only row of its burn, one processBurn job was added for the
\* burn, and the relay has rejected no submission made for r
CleanRun(r) ==
  /\ \E e \in 1..NumBurnEvents :
       /\ RowsOfBurn(e) = {r}
       /\ CopiesIn(BurnHash(e), burnJobsAdded) = 1
  /\ \A sub \in BagToSet(submitLog) :
       sub.transactionId = r => sub.accepted

ChangesOf(r) == {<<change[2], change[3]>> : change \in {c \in statusLog : c[1] = r}}

RecoveryEntriesOf(r) ==
  {entry \in BagToSet(recoveryLog) : entry.transactionId = r}

PollsOf(t) == {poll \in BagToSet(polls) : poll.taskId = t}

\* a status poll of task t has returned ExecSuccess, ExecReverted or Cancelled
TerminalSeen(t) == \E entry \in pollLog : entry[1] = t

StatusJobsOf(t) == {job \in BagToSet(statusQueue) : job.taskId = t}

\* maxRetries of the status checks of task t
MaxRetriesOf(t) ==
  IF tasks[t].kind = "dispatch" THEN DispatchMaxRetries ELSE RecoveryMaxRetries

RECURSIVE Power(_, _)
Power(b, n) == IF n = 0 THEN 1 ELSE b * Power(b, n - 1)

\* min(10000 * 1.5^k, 300000) ms in the model's delay unit; 1.5^k passes
\* 30 between k = 8 and k = 9, and 2^k divides Ms(10000) for k <= 8
ExpectedStatusDelay(k) ==
  IF k >= 9 THEN Ms(300000)
  ELSE Min((Ms(10000) \div Power(2, k)) * Power(3, k), Ms(300000))

\* relay tasks submitted for row r that the relay can still execute
ActiveTasks(r) ==
  {t \in DOMAIN tasks : tasks[t].transactionId = r /\ tasks[t].state = "pending"}

AllowedTransitions ==
  {<<PENDING, PROCESSING>>, <<PROCESSING, COMPLETED>>, <<PROCESSING, FAILED>>,
   <<FAILED, RECOVERY_IN_PROGRESS>>, <<RECOVERY_IN_PROGRESS, COMPLETED>>,
   <<RECOVERY_IN_PROGRESS, FAILED>>}

-----------------------------------------------------------------------------
(* Claims                                                                   *)

\* C1: once every delivery of a TokensBurned event has finished, exactly one
\* ledger row carries its (sourceTransactionHash, sourceNetwork) and exactly
\* one processBurn job has been added for it.
C1_BurnIngestedOnce ==
  \A e \in 1..NumBurnEvents :
    (/\ DeliveriesOf(e) # {}
     /\ \A s \in DeliveriesOf(e) : burnSight[s].pc = "done")
    => /\ Cardinality(RowsOfBurn(e)) = 1
       /\ CopiesIn(BurnHash(e), burnJobsAdded) = 1

\* C2: every status change written to a row is one of PENDING->PROCESSING,
\* PROCESSING->COMPLETED, PROCESSING->FAILED, FAILED->RECOVERY_IN_PROGRESS,
\* RECOVERY_IN_PROGRESS->COMPLETED, RECOVERY_IN_PROGRESS->FAILED.
C2_StatusMonotone ==
  \A change \in statusLog : <<change[2], change[3]>> \in AllowedTransitions

\* C3: every ledger row has recoveryAttempts <= MAX_RECOVERY_ATTEMPTS (3).
C3_RecoveryAttemptsBounded ==
  \A i \in Rows : ledger[i].recoveryAttempts <= MAX_RECOVERY_ATTEMPTS

\* C4: a row for which recovery was scheduled and that is left FAILED with no
\* job queued or running for it (every task submitted for it ended in failure
\* handling and recovery has stopped) has recoveryAttempts = 3.
C4_ExhaustedRowCountsThree ==
  \A r \in Rows :
    (/\ ledger[r].status = FAILED
     /\ ~Outstanding(r)
     /\ RecoveryScheduled(r))
    => ledger[r].recoveryAttempts = MAX_RECOVERY_ATTEMPTS

\* C5: every ledger row has sourceNetwork different from targetNetwork.
C5_NetworksDiffer ==
  \A i \in Rows : ledger[i].sourceNetwork # ledger[i].targetNetwork

\* C6: at most one ledger row carries a given targetTransactionHash.
C6_TargetHashUnique ==
  \A i, j \in Rows :
    (/\ i # j
     /\ ledger[i].targetTransactionHash # NoHash
     /\ ledger[i].targetTransactionHash = ledger[j].targetTransactionHash)
    => FALSE

\* C7: when a TokensMinted event is observed again after an earlier
\* observation of it has been processed, the lookup finds a row with its
\* hash, no row is created and the ledger is unchanged; when it is the
\* second observation of that mint, the observations have written at most
\* one row, exactly one row carries the hash unless a burn row carries it
\* too, and the row written is COMPLETED.
C7_MintSightingIdempotent ==
  [][\A s \in 1..MaxMintSightings, t \in DOMAIN tasks :
       LET earlier == {s0 \in 1..MaxMintSightings :
                         /\ s0 # s
                         /\ mintSight[s0].pc # "idle"
                         /\ mintSight[s0].task = t}
       IN (/\ ProcessMintEventFind(s, t)
           /\ \E s0 \in earlier : mintSight[s0].pc = "done")
          => /\ mintSight'[s].pc = "done"
             /\ ledger' = ledger
             /\ RowsWithTarget(MintHash(t)) # {}
             /\ Cardinality(earlier) = 1
                  => /\ Cardinality(MintRows(t)) <= 1
                     /\ RowsWithTarget(MintHash(t)) \subseteq MintRows(t)
                          => Cardinality(RowsWithTarget(MintHash(t))) = 1
                     /\ \A i \in MintRows(t) :
                          ledger[i].status = COMPLETED]_vars

\* two observations of one mint have been processed and one row was written
C7_Witness ==
  \E s, s0 \in 1..MaxMintSightings :
    /\ s # s0
    /\ mintSight[s].pc = "done"
    /\ mintSight[s0].pc = "done"
    /\ mintSight[s].task = mintSight[s0].task
    /\ Cardinality(MintRows(mintSight[s].task)) = 1
    /\ \A i \in MintRows(mintSight[s].task) : ledger[i].status = COMPLETED

\* C8: no window of rateLimitWindow ms contains more than
\* maxRequestsPerWindow outbound relay calls (dispatch submissions, recovery
\* submissions and status polls together).
C8_RateLimited ==
  \A w \in BagToSet(relayCalls) : CallsInWindow(w) <= maxRequestsPerWindow

\* C9: for a burn ingested once whose submissions were all accepted, once a
\* status poll of the dispatched task has returned ExecSuccess the row is
\* COMPLETED with the task's mint hash as targetTransactionHash, its status
\* has changed exactly PENDING -> PROCESSING -> COMPLETED, and no recovery
\* job has been added for it.
C9_HappyPath ==
  \A t \in DOMAIN tasks :
    LET r == tasks[t].transactionId
    IN (/\ tasks[t].kind = "dispatch"
        /\ <<t, "ExecSuccess">> \in pollLog
        /\ CleanRun(r))
       => /\ ledger[r].status = COMPLETED
          /\ ledger[r].targetTransactionHash = MintHash(t)
          /\ ChangesOf(r) = {<<PENDING, PROCESSING>>, <<PROCESSING, COMPLETED>>}
          /\ RecoveryEntriesOf(r) = {}

C9_Witness ==
  \E t \in DOMAIN tasks :
    /\ tasks[t].kind = "dispatch"
    /\ <<t, "ExecSuccess">> \in pollLog
    /\ CleanRun(tasks[t].transactionId)
    /\ ledger[tasks[t].transactionId].status = COMPLETED
    /\ Outstanding(tasks[t].transactionId) = FALSE

\* C10: for a burn ingested once whose submissions were all accepted, once
\* the poll of the dispatched task has returned ExecReverted the row has
\* gone PROCESSING -> FAILED and exactly one recovery job with
\* recoveryAttempt = 1 has been added for it; and once the task of the
\* first resubmission has been polled ExecSuccess the row is COMPLETED with
\* recoveryAttempts = 1.
C10_RecoveryScenario ==
  \A t1 \in DOMAIN tasks :
    LET r == tasks[t1].transactionId
        firstAttempt == {entry \in RecoveryEntriesOf(r) :
                           /\ entry.recoveryAttempt = 1
                           /\ entry.origin # "rateLimit"}
    IN (/\ tasks[t1].kind = "dispatch"
        /\ <<t1, "ExecReverted">> \in pollLog
        /\ CleanRun(r))
       => /\ <<r, PROCESSING, FAILED>> \in statusLog
          /\ Cardinality(firstAttempt) = 1
          /\ \A entry \in firstAttempt : CopiesIn(entry, recoveryLog) = 1
          /\ \A t2 \in DOMAIN tasks :
               (/\ tasks[t2].kind = "recovery"
                /\ tasks[t2].transactionId = r
                /\ \A t3 \in DOMAIN tasks :
                     (tasks[t3].kind = "recovery" /\ tasks[t3].transactionId = r)
                     => t3 >= t2
                /\ <<t2, "ExecSuccess">> \in pollLog)
               => /\ ledger[r].status = COMPLETED
                  /\ ledger[r].recoveryAttempts = 1
                  /\ ledger[r].targetTransactionHash = MintHash(t2)

C10_Witness ==
  \E t1, t2 \in DOMAIN tasks :
    LET r == tasks[t1].transactionId
    IN /\ tasks[t1].kind = "dispatch"
       /\ <<t1, "ExecReverted">> \in pollLog
       /\ CleanRun(r)
       /\ tasks[t2].kind = "recovery"
       /\ tasks[t2].transactionId = r
       /\ <<t2, "ExecSuccess">> \in pollLog
       /\ ledger[r].status = COMPLETED
       /\ ledger[r].recoveryAttempts = 1

\* C11: a task whose polls have all returned a non-terminal answer is polled
\* once per retryCount 0, 1, ..., never beyond maxRetries; when its status
\* checks have stopped it has been polled exactly maxRetries + 1 times, and
\* the poll at retryCount = maxRetries has taken the row from PROCESSING to
\* FAILED and left no status check queued for the task.
C11_PolledMaxRetriesPlusOne ==
  \A t \in DOMAIN tasks :
    ~TerminalSeen(t) =>
      LET n == Cardinality(PollsOf(t))
          r == tasks[t].transactionId
          last == [taskId |-> t, retryCount |-> MaxRetriesOf(t)]
      IN /\ \A poll \in PollsOf(t) : CopiesIn(poll, polls) = 1
         /\ {poll.retryCount : poll \in PollsOf(t)} = 0..(n - 1)
         /\ n <= MaxRetriesOf(t) + 1
         /\ StatusJobsOf(t) = {} => n = MaxRetriesOf(t) + 1
         /\ last \in PollsOf(t)
              => /\ StatusJobsOf(t) = {}
                 /\ <<r, PROCESSING, FAILED>> \in statusLog

C11_Witness ==
  \E t \in DOMAIN tasks :
    /\ ~TerminalSeen(t)
    /\ Cardinality(PollsOf(t)) = MaxRetriesOf(t) + 1
    /\ StatusJobsOf(t) = {}
    /\ ledger[tasks[t].transactionId].status = FAILED
    /\ env.pendings > 0

\* C12: a status check that re-enqueues its job (retryCount k) adds a job
\* with retryCount k + 1 and otherwise the same data, delayed by
\* min(10000 * 1.5^k, 300000) ms: 10000 at k = 0, 33750 at k = 3, 300000
\* for every k >= 9, never more than 300000, and more than the delay for
\* k - 1 whenever that was below 300000.
C12_StatusBackoff ==
  [][\A job \in BagToSet(statusQueue) :
       LET k == job.retryCount
           added == {j2 \in BagToSet(statusQueue') :
                       j2.taskId = job.taskId /\ j2.retryCount = k + 1}
       IN (checkGelatoTaskStatus(job) /\ added # {})
          => \A j2 \in added :
               /\ j2 = [job EXCEPT !.retryCount = k + 1, !.delay = j2.delay]
               /\ CopiesIn(j2, statusQueue') = 1
               /\ j2.delay = ExpectedStatusDelay(k)
               /\ j2.delay <= Ms(300000)
               /\ k = 0 => j2.delay = Ms(10000)
               /\ k = 3 => j2.delay = Ms(33750)
               /\ k >= 9 => j2.delay = Ms(300000)
               /\ k < 9 => j2.delay < Ms(300000)
               /\ (k > 0 /\ ExpectedStatusDelay(k - 1) < Ms(300000))
                    => j2.delay > ExpectedStatusDelay(k - 1)]_vars

\* status checks have been re-enqueued from retryCount 3 and from beyond 9
C12_Witness ==
  /\ \E job \in BagToSet(statusQueue) :
       job.retryCount = 12 /\ job.delay = Ms(300000)
  /\ \E poll \in BagToSet(polls) : poll.retryCount = 4

\* C13: for every row at most one relay task submitted for it is active
\* (accepted by the relay and not yet terminal there).
C13_OneActiveTask ==
  \A r \in Rows : Cardinality(ActiveTasks(r)) <= 1

\* C14: once every provider is connected again and no reconnection, gap scan
\* or listener hand-over is pending, every TokensBurned event emitted so far
\* has been passed to processBurnEvent, whatever triggered the reconnection.
Quiescent ==
  /\ \A n \in Network :
       /\ watch.net[n].live
       /\ watch.net[n].providerHealthStatus
       /\ watch.net[n].reconnects = {}
       /\ watch.net[n].cooldowns = {}
       /\ watch.net[n].scans = {}
  /\ watch.inbox = EmptyBag
  /\ watch.found = {}

C14_NoEventDropped ==
  Quiescent =>
    \A e \in 1..NumBurnEvents : watch.burnBlock[e] > 0 => DeliveriesOf(e) # {}

\* jobs of queue q that belong to row r
JobsOfRow(q, r) ==
  {job \in BagToSet(q) :
     IF "transactionId" \in DOMAIN job
       THEN job.transactionId = r
       ELSE job.sourceTransactionHash = ledger[r].sourceTransactionHash}

\* this step adds no dispatch, status-check or recovery job for row r
NothingEnqueued(r) ==
  /\ \A job \in JobsOfRow(bridgeQueue', r) :
       CopiesIn(job, bridgeQueue') <= CopiesIn(job, bridgeQueue)
  /\ \A job \in JobsOfRow(statusQueue', r) :
       CopiesIn(job, statusQueue') <= CopiesIn(job, statusQueue)
  /\ \A job \in JobsOfRow(recoveryQueue', r) :
       CopiesIn(job, recoveryQueue') <= CopiesIn(job, recoveryQueue)

\* C15: once the ceiling check has refused another recovery for a row, the row
\* stays FAILED in every later step and no step enqueues a dispatch,
\* status-check or recovery job for it.
C15_ExhaustedStaysFailed ==
  [][\A r \in exhausted :
       /\ ledger'[r].status = FAILED
       /\ NothingEnqueued(r)]_vars

\* C16: no handler run ends in a thrown job failure.  Bull counts a run in
\* attemptsMade only when the handler threw, so no queued processBurn job
\* ever carries a failed attempt.
C16_NoThrownFailure ==
  \A job \in BagToSet(bridgeQueue) : job.attemptsMade = 0

\* C17: a row whose dispatch submission was rejected has been marked FAILED by
\* that run and has had a recovery job added for it.
C17_FailedDispatchRecovers ==
  \A r \in Rows :
    BagIn([kind |-> "dispatch", transactionId |-> r, accepted |-> FALSE],
          submitLog)
      => /\ <<r, PROCESSING, FAILED>> \in statusLog
         /\ RecoveryScheduled(r)

\* C18: the processBurn step whose submission the relay accepts as task t
\* leaves the row's gelatoTaskId at t and exactly one status-check job for t,
\* with retryCount 0, in the queue.
C18_DispatchRecordsTask ==
  [][\A t \in DOMAIN tasks' \ DOMAIN tasks :
       tasks'[t].kind = "dispatch" =>
         /\ ledger'[tasks'[t].transactionId].gelatoTaskId = t
         /\ \E job \in BagToSet(statusQueue') :
              /\ job.taskId = t
              /\ job.retryCount = 0
              /\ job.transactionId = tasks'[t].transactionId
              /\ CopiesIn(job, statusQueue') = 1
              /\ \A other \in BagToSet(statusQueue') :
                   other.taskId = t => other = job]_vars

\* C19: a recoverFailedTransaction run that takes a job whose row is missing
\* or not FAILED changes no ledger field, calls the relay not at all, leaves
\* the rate limiter alone and adds no job: the step only removes its job.
C19_RecoveryGuardNoOp ==
  [][\A job \in BagToSet(recoveryQueue) :
       (/\ CopiesIn(job, recoveryQueue') < CopiesIn(job, recoveryQueue)
        /\ \/ job.transactionId \notin Rows
           \/ ledger[job.transactionId].status # FAILED)
         => /\ ledger' = ledger
            /\ relayCalls' = relayCalls
            /\ tasks' = tasks
            /\ submitLog' = submitLog
            /\ requestTimestamps' = requestTimestamps
            /\ recovering' = recovering
            /\ bridgeQueue' = bridgeQueue
            /\ statusQueue' = statusQueue
            /\ recoveryQueue' = recoveryQueue (-) SetToBag({job})]_vars

\* a rate-limited recovery job was added again and has since been taken while
\* its row was RECOVERY_IN_PROGRESS
C19_Witness ==
  \E r \in Rows :
    /\ ledger[r].status = RECOVERY_IN_PROGRESS
    /\ \E entry \in BagToSet(recoveryLog) :
         entry.transactionId = r /\ entry.origin = "rateLimit"
    /\ ~Outstanding(r)

\* C20: a row that is RECOVERY_IN_PROGRESS always has a job that will move it
\* on: the deferred recovery job or a running recovery that will resubmit,
\* or the status check of the task a resubmission created.
C20_DeferredRecoveryResubmits ==
  \A r \in Rows : ledger[r].status = RECOVERY_IN_PROGRESS => Outstanding(r)

\* C21: a status check that runs while the limiter is full calls the relay
\* not at all, leaves the ledger alone and puts exactly one job back whose data
\* (task, row, network, retryCount, maxRetries, recoveryAttempt) is the data
\* of the job it took; only the delay option differs.
C21_RateLimitedCheckDefers ==
  [][\A job \in BagToSet(statusQueue) :
       (/\ ~canMakeRequest
        /\ CopiesIn(job, statusQueue') < CopiesIn(job, statusQueue))
         => /\ ledger' = ledger
            /\ relayCalls' = relayCalls
            /\ polls' = polls
            /\ recoveryQueue' = recoveryQueue
            /\ BagCardinality(statusQueue') = BagCardinality(statusQueue)
            /\ \E again \in BagToSet(statusQueue') :
                 /\ [again EXCEPT !.delay = job.delay] = job
                 /\ statusQueue' =
                      (statusQueue (-) SetToBag({job})) (+) SetToBag({again})]_vars

\* the limiter is full and a deferred check waits under the deferral delay,
\* which no ordinary retry of that retryCount carries
C21_Witness ==
  /\ ~canMakeRequest
  /\ \E job \in BagToSet(statusQueue) :
       /\ job.delay = CappedGrowth(Ms(5000), 2, 1, job.retryCount, Ms(300000))
       /\ job.delay # IF job.retryCount = 0
                        THEN Ms(10000)
                        ELSE ExpectedStatusDelay(job.retryCount - 1)

\* the three things a status check that reached the relay may do with its job
PollCompletes(job) ==
  /\ tasks[job.taskId].state = "success"
  /\ statusQueue' = statusQueue (-) SetToBag({job})
  /\ ledger' = [ledger EXCEPT ![job.transactionId] =
                  [@ EXCEPT !.status = COMPLETED,
                            !.gelatoTaskId = job.taskId,
                            !.targetTransactionHash = MintHash(job.taskId)]]
  /\ recoveryQueue' = recoveryQueue

PollFails(job) ==
  /\ \/ tasks[job.taskId].state \in {"reverted", "cancelled"}
     \/ job.retryCount >= job.maxRetries
  /\ statusQueue' = statusQueue (-) SetToBag({job})
  /\ ledger' = UpdateStatus(ledger, job.transactionId, FAILED)
  /\ BagCardinality(recoveryQueue') =
       BagCardinality(recoveryQueue) +
         (IF job.recoveryAttempt < MAX_RECOVERY_ATTEMPTS THEN 1 ELSE 0)

PollRetries(job) ==
  /\ job.retryCount < job.maxRetries
  /\ \E next \in BagToSet(statusQueue') :
       /\ [next EXCEPT !.delay = job.delay] =
            [job EXCEPT !.retryCount = @ + 1]
       /\ statusQueue' = (statusQueue (-) SetToBag({job})) (+) SetToBag({next})
  /\ ledger' = ledger
  /\ recoveryQueue' = recoveryQueue

\* C22: a status check that reaches the relay does exactly one of three
\* things.  It completes the row with the reported mint hash (only on
\* ExecSuccess), or runs failure handling (on ExecReverted or Cancelled, or on
\* any other answer once retryCount has reached maxRetries), or re-enqueues
\* the check with retryCount + 1; a task still pending at the relay below
\* maxRetries is always retried, whatever the answer or query error.
C22_PollOutcomes ==
  [][\A job \in BagToSet(statusQueue) :
       (/\ polls' # polls
        /\ CopiesIn(job, statusQueue') < CopiesIn(job, statusQueue))
         => /\ \/ PollCompletes(job) /\ ~PollFails(job) /\ ~PollRetries(job)
               \/ PollFails(job) /\ ~PollCompletes(job) /\ ~PollRetries(job)
               \/ PollRetries(job) /\ ~PollCompletes(job) /\ ~PollFails(job)
            /\ (tasks[job.taskId].state = "pending"
                  /\ job.retryCount < job.maxRetries) => PollRetries(job)
            /\ (tasks[job.taskId].state = "pending"
                  /\ job.retryCount >= job.maxRetries) => PollFails(job)]_vars

\* a check retried up to retryCount = maxRetries has gone to failure handling:
\* the row is FAILED and its recovery job has been added
C22_Witness ==
  \E t \in DOMAIN tasks :
    /\ tasks[t].state = "pending"
    /\ BagIn([taskId |-> t, retryCount |-> MaxRetriesOf(t)], polls)
    /\ <<tasks[t].transactionId, PROCESSING, FAILED>> \in statusLog
    /\ RecoveryScheduled(tasks[t].transactionId)

\* C23: whatever mint calls the operators make, a step changes a chain's
\* balances, supply or burn records only by one mint with a non-zero burnId
\* that was not yet recorded: it records that burnId and credits one
\* recipient once.  A call with a used or zero burnId therefore changes
\* nothing, and each non-zero burnId is minted at most once.
C23_MintOncePerBurnId ==
  [][\A n \in Network :
       (token'[n] # token[n] \/ burnRecords'[n] # burnRecords[n])
         => \E to \in Holder, amount \in MintAmounts, burnId \in 1..MaxBurnIds :
              /\ burnId \notin burnRecords[n]
              /\ burnRecords'[n] = burnRecords[n] \cup {burnId}
              /\ token'[n] = Credit(token[n], to, amount)]_vars

\* all calls were made on one chain and every burnId is recorded there: the
\* calls beyond the first with each burnId, or with burnId zero, were reverted
C23_Witness ==
  \E n \in Network :
    /\ burnRecords[n] = 1..MaxBurnIds
    /\ burnRecords[OtherNetwork(n)] = {}
    /\ env.mintCalls = 0
    /\ MaxMintCalls > MaxBurnIds
    /\ token[n].totalSupply > 0

\* what the claim calls an invalid request
InvalidRequest(req) ==
  \/ req.sourceNetwork = req.targetNetwork
  \/ ~isAddress(req.recipient)
  \/ parseEther(req.amount) # "positive"
  \/ ~req.apiKey

\* C24: a processBridgeRequest call with identical networks, an invalid
\* recipient, an unparsable or non-positive amount or no relay API key ends in
\* a bad-request error, and its step makes no relay submission and changes
\* neither the ledger nor any queue.
C24_InvalidRequestRejected ==
  [][\A entry \in BagToSet(apiLog') :
       (/\ CopiesIn(entry, apiLog') > CopiesIn(entry, apiLog)
        /\ InvalidRequest(entry.request))
         => /\ entry.outcome = "BadRequestException"
            /\ submitLog' = submitLog
            /\ relayCalls' = relayCalls
            /\ tasks' = tasks
            /\ ledger' = ledger
            /\ bridgeQueue' = bridgeQueue
            /\ statusQueue' = statusQueue
            /\ recoveryQueue' = recoveryQueue]_vars

\* a zero amount with everything else in order was rejected without a relay
\* call
C24_Witness ==
  /\ \E entry \in BagToSet(apiLog) :
       /\ parseEther(entry.request.amount) = "zero"
       /\ entry.request.sourceNetwork # entry.request.targetNetwork
       /\ isAddress(entry.request.recipient)
       /\ entry.request.apiKey
       /\ entry.request.contractAddress
       /\ entry.outcome = "BadRequestException"
  /\ relayCalls = EmptyBag

\* C25: handleFailedTransaction(transactionId, reason, recoveryAttempt) on an
\* existing row writes FAILED to it and nothing else, and adds exactly one
\* recovery job for the row (carrying recoveryAttempt + 1) if
\* recoveryAttempt < 3 and none otherwise; on a missing row it writes nothing
\* and adds nothing.
C25_FailureHandling ==
  [][env'.failures < env.failures =>
       LET id == env.transactionId
           attempt == env.recoveryAttempt
       IN IF id \in Rows
            THEN /\ ledger' = [ledger EXCEPT ![id].status = FAILED]
                 /\ IF attempt < 3
                      THEN \E job \in BagToSet(recoveryQueue') :
                             /\ job.transactionId = id
                             /\ job.recoveryAttempt = attempt + 1
                             /\ recoveryQueue' = recoveryQueue (+) SetToBag({job})
                      ELSE recoveryQueue' = recoveryQueue
            ELSE ledger' = ledger /\ recoveryQueue' = recoveryQueue]_vars

\* the call was made at the ceiling on an existing row that was not FAILED
\* before: the row is FAILED and no recovery job exists
C25_Witness ==
  /\ env.failures = 0
  /\ env.recoveryAttempt = 3
  /\ env.transactionId \in Rows
  /\ \E from \in {PENDING, PROCESSING, COMPLETED} :
       <<env.transactionId, from, FAILED>> \in statusLog
  /\ ledger[env.transactionId].status = FAILED
  /\ recoveryQueue = EmptyBag

\* C26: when the relay rejects a recovery resubmission, the row is re-marked
\* FAILED, its recoveryAttempts grows by 1, and a new recovery job carrying
\* recoveryAttempt + 1 with delay 60000 * 2^recoveryAttempt ms is enqueued if
\* and only if the job's recoveryAttempt < 3; otherwise nothing is enqueued.
C26_RejectedRecoveryReschedules ==
  [][\A run \in BagToSet(recovering) :
       (/\ recovering' = recovering (-) SetToBag({run})
        /\ submitLog' = submitLog (+)
             Submission("recovery", run.job.transactionId, FALSE))
       => LET job == run.job
              id == job.transactionId
          IN /\ ledger'[id].status = FAILED
             /\ ledger'[id].recoveryAttempts = ledger[id].recoveryAttempts + 1
             /\ statusQueue' = statusQueue
             /\ bridgeQueue' = bridgeQueue
             /\ IF job.recoveryAttempt < 3
                  THEN recoveryQueue' = recoveryQueue (+) SetToBag({
                         [job EXCEPT !.recoveryAttempt = job.recoveryAttempt + 1,
                                     !.delay = Ms(60000) * Pow2(job.recoveryAttempt)]})
                  ELSE recoveryQueue' = recoveryQueue]_vars

\* a second rejection has been rescheduled (attempt 3, delay 240 s) and the
\* row is FAILED with both rejections counted
C26_Witness ==
  \E job \in BagToSet(recoveryQueue) :
    /\ job.recoveryAttempt = 3
    /\ job.delay = Ms(240000)
    /\ ledger[job.transactionId].status = FAILED
    /\ ledger[job.transactionId].recoveryAttempts = 2
    /\ BagIn([kind |-> "recovery", transactionId |-> job.transactionId,
              accepted |-> FALSE], submitLog)

\* number of recovery resubmissions handed to the relay for row id
RecoverySubmissions(id) ==
  CopiesIn([kind |-> "recovery", transactionId |-> id, accepted |-> TRUE],
           submitLog)
  + CopiesIn([kind |-> "recovery", transactionId |-> id, accepted |-> FALSE],
             submitLog)

\* C27: in every reachable state a row's recoveryAttempts equals the number
\* of recovery submissions attempted for it, accepted or rejected.
C27_AttemptsCountSubmissions ==
  \A id \in Rows : ledger[id].recoveryAttempts = RecoverySubmissions(id)

\* C28: every status-check job that comes from a fresh dispatch carries a
\* strictly smaller maxRetries than every status-check job that comes from a
\* recovery resubmission.
C28_DispatchPollsFewer ==
  \A d, r \in BagToSet(statusQueue) :
    (tasks[d.taskId].kind = "dispatch" /\ tasks[r.taskId].kind = "recovery")
      => d.maxRetries < r.maxRetries

\* job checks a task that a recovery resubmission has replaced as the row's
\* current relay task
Superseded(job) ==
  /\ job.transactionId \in Rows
  /\ ledger[job.transactionId].gelatoTaskId # NoTask
  /\ ledger[job.transactionId].gelatoTaskId # job.taskId
  /\ tasks[ledger[job.transactionId].gelatoTaskId].kind = "recovery"

\* C29: a status check of a job whose task is no longer the row's current
\* relay task (a recovery resubmission has superseded it) leaves the row's
\* status, relay task id and targetTransactionHash as they were.
C29_SupersededCheckInert ==
  [][\A job \in BagToSet(statusQueue) :
       (/\ Superseded(job)
        /\ polls' = polls (+) SetToBag({[taskId |-> job.taskId,
                                         retryCount |-> job.retryCount]}))
       => LET id == job.transactionId
          IN /\ ledger'[id].status = ledger[id].status
             /\ ledger'[id].gelatoTaskId = ledger[id].gelatoTaskId
             /\ ledger'[id].targetTransactionHash
                  = ledger[id].targetTransactionHash]_vars

\* C30: on every chain the reconnect-attempt counter never exceeds 10,
\* whichever way the reconnection chains (error or disconnect, health probe,
\* switch back) interleave; a reconnectProvider call made at counter 10 makes
\* no connection attempt and only sets the cooldown timer, and the timer
\* resets the counter to 0 and calls reconnectProvider again.
C30_ReconnectCeiling ==
  /\ [](\A n \in Network :
          watch.net[n].reconnectAttempts <= MAX_RECONNECT_ATTEMPTS)
  /\ [][\A n \in Network :
          /\ (/\ watch.net[n].reconnectAttempts = 10
              /\ watch'.net[n].reconnects # watch.net[n].reconnects
              /\ watch'.net[n].reconnects \subseteq watch.net[n].reconnects)
             => /\ env' = env
                /\ \E k \in watch.net[n].reconnects :
                     watch' = [watch EXCEPT
                                 !.net[n].reconnects = @ \ {k},
                                 !.net[n].cooldowns = @ \cup {k}]
          /\ (/\ watch'.net[n].cooldowns \subseteq watch.net[n].cooldowns
              /\ watch'.net[n].cooldowns # watch.net[n].cooldowns)
             => /\ watch'.net[n].reconnectAttempts = 0
                /\ watch'.net[n].cooldowns \cup watch'.net[n].reconnects
                     = watch.net[n].cooldowns \cup watch.net[n].reconnects]_vars

\* two chains (a switch back and a provider error) have both met the
\* ceiling; the timer of one has fired and its next attempt has failed while
\* the other still waits
C30_Witness ==
  \E n \in Network :
    /\ ~watch.net[n].providerHealthStatus
    /\ watch.net[n].reconnectAttempts = 1
    /\ Cardinality(watch.net[n].cooldowns) = 1
    /\ Cardinality(watch.net[n].reconnects) = 1
    /\ env.reconnectFails = 0

\* C31: a chain's connection switches to the backup endpoint only after 3
\* consecutive reconnection attempts against the primary endpoint have failed
\* (the first three attempts after a failure all target the primary).
C31_BackupAfterThreeFailures ==
  [][\A n \in Network :
       (~watch.net[n].usingBackupRpc /\ watch'.net[n].usingBackupRpc)
         => watch.net[n].primaryFailures >= 3]_vars

\* C32: whenever a chain's health flag is false, a reconnectProvider call
\* for the chain is pending or its cooldown timer is set, and the attempts go
\* on until one succeeds: an unhealthy chain becomes healthy again.
C32_UnhealthyIsReconnecting ==
  /\ [](\A n \in Network :
          ~watch.net[n].providerHealthStatus
            => watch.net[n].reconnects \cup watch.net[n].cooldowns # {})
  /\ \A n \in Network :
       (~watch.net[n].providerHealthStatus) ~> watch.net[n].providerHealthStatus

\* an unhealthy chain whose only pending work is the cooldown timer
C32_Witness ==
  \E n \in Network :
    /\ ~watch.net[n].providerHealthStatus
    /\ watch.net[n].reconnectAttempts = MAX_RECONNECT_ATTEMPTS
    /\ watch.net[n].reconnects = {}
    /\ watch.net[n].cooldowns # {}

\* C33: after any sequence of provider errors, disconnects, switches back to
\* the primary endpoint and successful reconnections, each chain has one
\* active set of event subscriptions, so an emitted event is handed to
\* processBurnEvent by at most one live listener.
C33_OneSubscriptionSet ==
  /\ \A n \in Network : watch.net[n].subscriptions <= 1
  /\ \A e \in 1..NumBurnEvents : CopiesIn(e, watch.inbox) <= 1

\* the queries of the gap scan of network n: at most 10,000 blocks each, no
\* two overlapping, each starting at the scan's lastKnownBlock + 1 or right
\* after another one; a continuation is pending exactly from the last
\* endBlock, and once none is pending the last query ended at the head it read
ScanChunksOf(n) ==
  LET w == watch.net[n]
      Q == w.queried
      last == IF Q = {} THEN w.scanFrom
              ELSE CHOOSE b \in {q[2] : q \in Q} : \A q \in Q : q[2] <= b
  IN /\ \A q \in Q : q[1] <= q[2] /\ q[2] - q[1] + 1 <= 10000 /\ q[2] <= q[3]
     /\ \A q1, q2 \in Q : q1 # q2 => (q1[2] < q2[1] \/ q2[2] < q1[1])
     /\ \A q \in Q : q[1] = w.scanFrom + 1 \/ \E p \in Q : p[2] + 1 = q[1]
     /\ \A k \in w.scans : k = last
     /\ (w.scans = {} /\ Q # {}) => \E q \in Q : q[2] = last /\ q[2] = q[3]

\* C34: for a lastKnownBlock below the head and queries that succeed, the
\* successive queries of checkForMissedEvents are contiguous and do not
\* overlap, each spans at most 10,000 blocks, together they cover the blocks
\* from lastKnownBlock + 1 to the head, and the continuation scans end.
C34_GapScanChunks ==
  /\ [](\A n \in Network : ScanChunksOf(n))
  /\ \A n \in Network : (watch.net[n].scans # {}) ~> (watch.net[n].scans = {})

\* a gap of 30,000 blocks has been scanned in exactly three full chunks
C34_Witness ==
  \E n \in Network :
    /\ watch.net[n].scans = {}
    /\ Cardinality(watch.net[n].queried) = 3
    /\ \A q \in watch.net[n].queried : q[2] - q[1] + 1 = 10000

\* the fields of a row that are set at creation
CreationFields(row) ==
  [recipient |-> row.recipient, amount |-> row.amount,
   sourceNetwork |-> row.sourceNetwork, targetNetwork |-> row.targetNetwork,
   sourceTransactionHash |-> row.sourceTransactionHash,
   burnId |-> row.burnId]

\* C35: no operation after a row's creation changes its id, recipient,
\* amount, sourceNetwork, targetNetwork, sourceTransactionHash or burnId, and
\* no operation deletes a row.
C35_CreationFieldsFrozen ==
  [][\A id \in Rows :
       /\ id \in DOMAIN ledger'
       /\ CreationFields(ledger'[id]) = CreationFields(ledger[id])]_vars

\* a row that went through dispatch, failure handling, an accepted recovery
\* and completion
C35_Witness ==
  \E id \in Rows :
    /\ ledger[id].status = COMPLETED
    /\ ledger[id].recoveryAttempts >= 1
    /\ <<id, PENDING, PROCESSING>> \in statusLog
    /\ <<id, FAILED, RECOVERY_IN_PROGRESS>> \in statusLog
    /\ ledger[id].gelatoTaskId # NoTask
    /\ tasks[ledger[id].gelatoTaskId].kind = "recovery"

\* the relay tasks submitted for burn event e
TasksOfBurn(e) ==
  {t \in DOMAIN tasks : tasks[t].transactionId \in RowsOfBurn(e)}

\* C36: every mint submission made for a burn (dispatch, recovery, retried
\* or duplicated jobs) carries the burnId that the burn event emitted, and
\* at most one mint executes on the target chain for the burn.
C36_OneMintPerBurn ==
  \A e \in 1..NumBurnEvents :
    /\ \A t \in TasksOfBurn(e) : tasks[t].burnId = burnEvents[e].burnId
    /\ Cardinality({t \in TasksOfBurn(e) : tasks[t].state = "success"}) <= 1

\* two submissions were made for one burn; one minted and the token contract
\* reverted the other for its reused burnId
C36_Witness ==
  \E e \in 1..NumBurnEvents : \E t1, t2 \in TasksOfBurn(e) :
    /\ tasks[t1].state = "success"
    /\ tasks[t2].state = "reverted"
    /\ env.relayFails = MaxRelayFails
    /\ tasks[t2].burnId \in burnRecords[tasks[t2].targetNetwork]

\* C37: each PENDING row has a processBurn job enqueued for it, at the latest
\* once the burn has been observed again and that observation has been
\* processed (also when adding the job failed after the row was created).
C37_PendingHasDispatchJob ==
  \A e \in 1..NumBurnEvents : \A r \in RowsOfBurn(e) :
    (/\ ledger[r].status = PENDING
     /\ \A s \in 1..MaxBurnSightings :
          burnSight[s].pc = "done" /\ burnSight[s].ev = e)
    => \E job \in BagToSet(bridgeQueue) :
         job.sourceTransactionHash = ledger[r].sourceTransactionHash

\* C38: a row for which no dispatch, status-check or recovery job is queued
\* or running is COMPLETED or FAILED.
C38_IdleRowIsSettled ==
  \A r \in Rows :
    ~Outstanding(r) => ledger[r].status \in {COMPLETED, FAILED}

\* C39: a TokensMinted sighting adds no job and makes no relay submission;
\* all it can do is create one COMPLETED row.
C39_MintSightingInert ==
  [][mintSight' # mintSight =>
       /\ bridgeQueue' = bridgeQueue
       /\ statusQueue' = statusQueue
       /\ recoveryQueue' = recoveryQueue
       /\ recovering' = recovering
       /\ relayCalls' = relayCalls
       /\ submitLog' = submitLog
       /\ tasks' = tasks
       /\ token' = token
       /\ burnRecords' = burnRecords
       /\ \/ ledger' = ledger
          \/ /\ Len(ledger') = Len(ledger) + 1
             /\ SubSeq(ledger', 1, Len(ledger)) = ledger
             /\ ledger'[Len(ledger')].status = COMPLETED]_vars

\* a mint sighting has been processed: it wrote its COMPLETED row, and no
\* job is queued
C39_Witness ==
  \E s \in 1..MaxMintSightings :
    /\ mintSight[s].pc = "done"
    /\ \E r \in Rows :
         /\ ledger[r].sourceTransactionHash = MintHash(mintSight[s].task)
         /\ ledger[r].status = COMPLETED
    /\ bridgeQueue = EmptyBag
    /\ statusQueue = EmptyBag
    /\ recoveryQueue = EmptyBag

\* C40: running a processBurn job whose row has already left PENDING (a
\* redelivered or duplicated job, a queue retry after a failed attempt) makes
\* no relay call and leaves the row's status as it was.
C40_DispatchIdempotent ==
  [][\A job \in BagToSet(bridgeQueue) :
       LET found == {i \in Rows :
                       ledger[i].sourceTransactionHash = job.sourceTransactionHash}
       IN (/\ CopiesIn(job, bridgeQueue') < CopiesIn(job, bridgeQueue)
           /\ found # {}
           /\ \A i \in found : ledger[i].status # PENDING)
          => /\ relayCalls' = relayCalls
             /\ \A i \in found : ledger'[i].status = ledger[i].status]_vars

====
